---- MODULE Spec2Model ----
(***************************************************************************)
(* Email discovery and verification pipeline of b2b-scraper:               *)
(*   src/backend/execution/crawl_website_for_email.py  (crawl stage)       *)
(*   src/execution/verify_email_smtp.py                (verify stage)      *)
(*                                                                         *)
(* A Python str is a sequence of one-character strings.  A lead (a dict)   *)
(* is a function from the keys it holds to their values.  Python's None    *)
(* and a non-string JSON value are one-element sequences holding a tag no  *)
(* character equals.                                                       *)
(***************************************************************************)
EXTENDS Integers, Sequences, FiniteSets, TLC

None == <<"<None>">>
NonStr == <<"<int>">>

IsStr(v) == v \notin {None, NonStr}

\* Python truthiness of None, a str or a number other than 0.
Truthy(v) == v = NonStr \/ (IsStr(v) /\ v # <<>>)

\* dict.get(key) and dict.get(key, default)
Get(d, key) == IF key \in DOMAIN d THEN d[key] ELSE None
GetOr(d, key, default) == IF key \in DOMAIN d THEN d[key] ELSE default

\* d[key] = value
SetKey(d, key, value) ==
    [k \in DOMAIN d \cup {key} |-> IF k = key THEN value ELSE d[k]]

\* A list of assignments d[k] = v, applied in order: the last write of a key
\* is the value it holds.
Apply(d, ws) ==
    LET written == {ws[n][1] : n \in 1..Len(ws)}
        last(k) == CHOOSE n \in 1..Len(ws) :
                      ws[n][1] = k /\ \A m \in (n+1)..Len(ws) : ws[m][1] # k
    IN  [k \in DOMAIN d \cup written |-> IF k \in written THEN ws[last(k)][2] ELSE d[k]]

\* How many of the assignments ws write the key.
CountWrites(ws, key) == Cardinality({n \in 1..Len(ws) : ws[n][1] = key})

---------------------------------------------------------------------------
(* str operations *)

UpperChars == <<"A","B","C","D","E","F","G","H","I","J","K","L","M",
                "N","O","P","Q","R","S","T","U","V","W","X","Y","Z">>
LowerChars == <<"a","b","c","d","e","f","g","h","i","j","k","l","m",
                "n","o","p","q","r","s","t","u","v","w","x","y","z">>
Digits == {"0","1","2","3","4","5","6","7","8","9"}
Letters == {UpperChars[k] : k \in 1..26} \cup {LowerChars[k] : k \in 1..26}

LowerChar(c) ==
    IF \E k \in 1..26 : UpperChars[k] = c
    THEN LowerChars[CHOOSE k \in 1..26 : UpperChars[k] = c]
    ELSE c

\* str.lower()
Lower(s) == [k \in 1..Len(s) |-> LowerChar(s[k])]

\* s.find(c) + 1: the first position of the character c in s, 0 if none
Find(s, c) ==
    IF \E k \in 1..Len(s) : s[k] = c
    THEN CHOOSE k \in 1..Len(s) : s[k] = c /\ \A j \in 1..(k-1) : s[j] # c
    ELSE 0

\* s.startswith(p)
StartsWith(s, p) == Len(s) >= Len(p) /\ SubSeq(s, 1, Len(p)) = p

\* sub in s
Contains(s, sub) ==
    \E k \in 1..(Len(s) - Len(sub) + 1) : SubSeq(s, k, k + Len(sub) - 1) = sub

\* s[n:]
Drop(s, n) == SubSeq(s, n + 1, Len(s))

\* The n-th smallest element of a set of integers.
Nth(P, n) == CHOOSE k \in P : Cardinality({m \in P : m < k}) = n - 1

\* s.split(c) for a one-character separator: the pieces between the separators
Split(s, c) ==
    LET P == {k \in 1..Len(s) : s[k] = c}
        n == Cardinality(P)
        cutAt(j) == IF j = 0 THEN 0 ELSE IF j = n + 1 THEN Len(s) + 1 ELSE Nth(P, j)
    IN  [j \in 1..(n + 1) |-> SubSeq(s, cutAt(j - 1) + 1, cutAt(j) - 1)]

\* s.split(): the whitespace-delimited tokens, the maximal runs without a space
SplitWs(s) ==
    LET Starts == {k \in 1..Len(s) : s[k] # " " /\ (k = 1 \/ s[k - 1] = " ")}
        endOf(k) == CHOOSE e \in k..Len(s) :
                       /\ \A m \in k..e : s[m] # " "
                       /\ (e = Len(s) \/ s[e + 1] = " ")
    IN  [j \in 1..Cardinality(Starts) |-> SubSeq(s, Nth(Starts, j), endOf(Nth(Starts, j)))]

\* The first position of any character of cs in s, Len(s)+1 if none.
FirstOf(s, cs) ==
    IF \E k \in 1..Len(s) : s[k] \in cs
    THEN CHOOSE k \in 1..Len(s) : s[k] \in cs /\ \A j \in 1..(k-1) : s[j] \notin cs
    ELSE Len(s) + 1

---------------------------------------------------------------------------
(* urllib.parse.urlparse, as the two modules use it: scheme, netloc, path. *)
(* It raises ValueError on a netloc with an unbalanced square bracket.     *)

SchemeChars == Letters \cup Digits \cup {"+", "-", "."}

urlparse(url) ==
    LET i == Find(url, ":")
        hasScheme == /\ i > 1
                     /\ url[1] \in Letters
                     /\ \A k \in 1..(i-1) : url[k] \in SchemeChars
        scheme == IF hasScheme THEN Lower(SubSeq(url, 1, i - 1)) ELSE <<>>
        rest == IF hasScheme THEN Drop(url, i) ELSE url
        hasNetloc == StartsWith(rest, <<"/", "/">>)
        afterSlashes == Drop(rest, 2)
        cut == FirstOf(afterSlashes, {"/", "?", "#"})
        netloc == IF hasNetloc THEN SubSeq(afterSlashes, 1, cut - 1) ELSE <<>>
        tail == IF hasNetloc THEN Drop(afterSlashes, cut - 1) ELSE rest
        path == SubSeq(tail, 1, FirstOf(tail, {"?", "#"}) - 1)
        bad == (Find(netloc, "[") > 0) # (Find(netloc, "]") > 0)
    IN  [raised |-> bad, scheme |-> scheme, netloc |-> netloc, path |-> path]

---------------------------------------------------------------------------
(* verify_email_smtp.py: the pure parts *)

WwwPrefix == <<"w", "w", "w", ".">>

get_domain_from_website(website) ==
    IF ~Truthy(website) THEN None
    ELSE IF ~IsStr(website) THEN None
    ELSE LET parsed == urlparse(website)
             domain == IF parsed.netloc # <<>> THEN parsed.netloc ELSE parsed.path
         IN  IF parsed.raised THEN None
             ELSE Lower(IF StartsWith(domain, WwwPrefix) THEN Drop(domain, 4) ELSE domain)

\* A template is a sequence of literal text and placeholders.
Lit(s) == [kind |-> "lit", text |-> s]
Field(f) == [kind |-> "field", text |-> f]

\* Mutant: the name templates come first
EMAIL_PATTERNS_NamesFirst == <<
    << Field("first"), Lit(<<"@">>), Field("domain") >>,
    << Field("first"), Lit(<<".">>), Field("last"), Lit(<<"@">>), Field("domain") >>,
    << Field("first"), Field("last"), Lit(<<"@">>), Field("domain") >>,
    << Lit(<<"i","n","f","o","@">>), Field("domain") >>,
    << Lit(<<"c","o","n","t","a","c","t","@">>), Field("domain") >>,
    << Lit(<<"h","e","l","l","o","@">>), Field("domain") >>,
    << Lit(<<"s","a","l","e","s","@">>), Field("domain") >>,
    << Lit(<<"s","u","p","p","o","r","t","@">>), Field("domain") >>,
    << Lit(<<"a","d","m","i","n","@">>), Field("domain") >>,
    << Lit(<<"o","f","f","i","c","e","@">>), Field("domain") >> >>

EMAIL_PATTERNS == <<
    << Lit(<<"i","n","f","o","@">>), Field("domain") >>,
    << Lit(<<"c","o","n","t","a","c","t","@">>), Field("domain") >>,
    << Lit(<<"h","e","l","l","o","@">>), Field("domain") >>,
    << Lit(<<"s","a","l","e","s","@">>), Field("domain") >>,
    << Lit(<<"s","u","p","p","o","r","t","@">>), Field("domain") >>,
    << Lit(<<"a","d","m","i","n","@">>), Field("domain") >>,
    << Lit(<<"o","f","f","i","c","e","@">>), Field("domain") >>,
    << Field("first"), Lit(<<"@">>), Field("domain") >>,
    << Field("first"), Lit(<<".">>), Field("last"), Lit(<<"@">>), Field("domain") >>,
    << Field("first"), Field("last"), Lit(<<"@">>), Field("domain") >> >>

\* The concatenation of the strings of a list.
RECURSIVE Concat(_, _)
Concat(parts, n) == IF n = 0 THEN <<>> ELSE Concat(parts, n - 1) \o parts[n]

\* pattern.format(domain=..., first=..., last=...)
Format(pattern, args) ==
    Concat([k \in 1..Len(pattern) |->
               IF pattern[k].kind = "lit" THEN pattern[k].text ELSE args[pattern[k].text]],
           Len(pattern))

\* lines 139-147: the formatted patterns that hold no '{' and hold an '@'
FormatAll(patterns, args) ==
    LET emails == [k \in 1..Len(patterns) |-> Format(patterns[k], args)]
        Kept == {k \in 1..Len(patterns) :
                    Find(emails[k], "{") = 0 /\ Find(emails[k], "@") > 0}
    IN  [j \in 1..Cardinality(Kept) |-> emails[Nth(Kept, j)]]

\* generate_email_guesses: raises (AttributeError) when name is not a str.
generate_email_guesses(lead) ==
    LET domain == get_domain_from_website(Get(lead, "website"))
        name == GetOr(lead, "name", <<>>)
        name_parts == SplitWs(name)
        first == IF name_parts # <<>> THEN Lower(name_parts[1]) ELSE <<>>
        last == IF Len(name_parts) > 1 THEN Lower(name_parts[Len(name_parts)]) ELSE <<>>
    IN  IF ~Truthy(domain) THEN [raised |-> FALSE, guesses |-> <<>>]
        ELSE IF ~IsStr(name) THEN [raised |-> TRUE, guesses |-> <<>>]
        ELSE [raised |-> FALSE,
              guesses |-> FormatAll(EMAIL_PATTERNS,
                                    [domain |-> domain, first |-> first, last |-> last])]

\* The SMTP session of one probe, as the network decides it: the MX lookup
\* finds nothing, RCPT answers 250, 550 or another code, or the session ends in
\* one of the four exceptions verify_email_smtp catches.
NetOutcomes == {"no_mx", "rcpt_250", "rcpt_550", "rcpt_other",
                "disconnected", "connect_error", "timeout", "other_error"}

NoError == "<None>"

\* verify_email_smtp(email) under network outcome net.  valid is "True",
\* "False" or "None"; raised: email.split('@')[1] raised, which it does when
\* email holds no '@'; mx: the MX lookup ran.
verify_email_smtp(email, net) ==
    IF ~IsStr(email) \/ Find(email, "@") = 0
    THEN [raised |-> TRUE, mx |-> FALSE, valid |-> "False", error |-> NoError]
    ELSE [raised |-> FALSE, mx |-> TRUE,
          valid |-> IF net = "rcpt_250" THEN "True"
                    ELSE IF net = "rcpt_other" THEN "None"
                    ELSE "False",
          error |-> CASE net = "no_mx" -> "No MX records"
                      [] net = "disconnected" -> "Server disconnected"
                      [] net = "connect_error" -> "Connection failed"
                      [] net = "timeout" -> "Timeout"
                      [] net = "other_error" -> "str(e)"
                      [] OTHER -> NoError]

FakeLocal == <<"d","e","f","i","n","i","t","e","l","y","_","f","a","k","e","_",
               "1","2","3","4","5","@">>

fake_email(domain) == FakeLocal \o domain

\* check_catch_all: result.get('valid', False) of the probe of the fake address
check_catch_all(domain, net) == verify_email_smtp(fake_email(domain), net).valid

\* f"info@{domain}"
info_at(domain) == <<"i","n","f","o","@">> \o domain

\* Mutant: an unknown verdict handled by the else branch.
ClassifyPrimary_UnknownAsInvalid(email, result) ==
    IF result.valid = "True"
    THEN << <<"verified_email", email>>, <<"email_status", "verified">> >>
    ELSE << <<"verified_email", None>>, <<"email_status", "invalid">> >>

\* process_lead, lines 161-172: the assignments after the probe of primary_email
ClassifyPrimary(email, result) ==
    IF result.valid = "True"
    THEN << <<"verified_email", email>>, <<"email_status", "verified">> >>
    ELSE IF result.valid = "None"
    THEN << <<"verified_email", email>>, <<"email_status", "unverified">> >>
    ELSE << <<"verified_email", None>>, <<"email_status", "invalid">> >>

\* Mutant: the branch without a domain also empties emails_found
ClassifyNoWebsite_EmptiesFound ==
    << <<"emails_found", <<>>>>, <<"verified_email", None>>,
       <<"email_status", "no_website">> >>

\* process_lead, lines 180-182
ClassifyNoWebsite == << <<"verified_email", None>>, <<"email_status", "no_website">> >>

\* Mutant: if is_catch_all is not False
IsCatchAll_NotFalse(is_catch_all) == is_catch_all # "False"

\* process_lead, lines 189-192: if is_catch_all
IsCatchAll(is_catch_all) == is_catch_all = "True"

ClassifyCatchAll(domain) ==
    << <<"verified_email", info_at(domain)>>, <<"email_status", "catch_all">> >>

\* process_lead, line 199: guesses[:5]
GuessLimit == 5

\* Mutant: the loop runs over every guess.
FirstGuesses_NoLimit(guesses) == guesses

FirstGuesses(guesses) ==
    SubSeq(guesses, 1, IF Len(guesses) < GuessLimit THEN Len(guesses) ELSE GuessLimit)

\* process_lead, lines 201-203
ClassifyGuessed(guess) ==
    << <<"verified_email", guess>>, <<"email_status", "guessed_verified">> >>

\* Mutant: the fallback leaves the address empty.
ClassifyFallback_NoAddress(domain) ==
    << <<"verified_email", None>>, <<"email_status", "guessed_unverified">> >>

\* process_lead, lines 208-209
ClassifyFallback(domain) ==
    << <<"verified_email", info_at(domain)>>, <<"email_status", "guessed_unverified">> >>

\* Mutant: the handler writes a status outside EmailStatus.
OnVerifyException_Failed(e) ==
    << <<"verified_email", None>>, <<"email_status", "failed">>,
       <<"verification_error", e>> >>

\* Mutant: the handler resets the crawl result of the lead as well.
OnVerifyException_ClearsPrimary(e) ==
    << <<"primary_email", None>>, <<"verified_email", None>>,
       <<"email_status", "error">>, <<"verification_error", e>> >>

\* verify_all_leads, lines 232-236: the scheduler's handler of a worker's exception
OnVerifyException(e) ==
    << <<"verified_email", None>>, <<"email_status", "error">>,
       <<"verification_error", e>> >>

---------------------------------------------------------------------------
(* State *)

VARIABLES
    stage,        \* "crawl" or "verify": the batch function that is running
    input,        \* the leads as they were when the batch function was called
    leads,        \* the list of lead dicts handed to the batch function
    max_workers,  \* the pool size of the ThreadPoolExecutor
    task,         \* per lead, its future: "queued", "running", "done", "raised"
    exc,          \* per lead, str(e) of the exception its task raised
    results,      \* the results list: indices of leads, in the order appended
    returned,     \* the batch function has returned results
    wpc,          \* per lead, where its worker is inside process_lead
    domain,       \* verify worker's local: the domain of the lead's website
    guesses,      \* verify worker's local: guesses[:5]
    idx,          \* verify worker's local: position in the guess loop
    probes,       \* per lead, the calls of verify_email_smtp made so far
    result,       \* per lead, the dict the last verify_email_smtp call returned
    writes,       \* per lead, how many times email_status was assigned
    pages,        \* crawl worker's local: pages_to_check
    emails,       \* crawl worker's local: the set of addresses found so far
    fetched,      \* per lead, the URLs fetch_page was called with, in order
    anyHtml,      \* per lead, whether some fetch_page call returned a body
    delays,       \* per lead, how many times the crawl slept
    outcomes,     \* per lead, the kinds of page its fetches have met so far
    ran,          \* the batch functions that ran before this one, in order
    fn,           \* a direct call of a pure function: its name
    arg,          \* the argument of the call
    out,          \* the value the call returned
    JOBS,         \* main.py: job id -> its process, "running" or its exit code
    jobs_dir      \* .tmp/jobs: job id -> the statuses written to <job_id>.json

vars == <<stage, input, leads, max_workers, task, exc, results, returned, wpc,
          domain, guesses, idx, probes, result, writes, pages, emails, fetched,
          anyHtml, delays, outcomes, ran, fn, arg, out, JOBS, jobs_dir>>

backendVars == <<JOBS, jobs_dir>>

crawlVars == <<pages, emails, fetched, anyHtml, delays, outcomes>>
callVars == <<fn, arg, out>>
verifyVars == <<domain, guesses, probes, result>>

\* Bounds of the model
NumLeads == 2
MaxWorkers == 2

Idx == 1..NumLeads

NoResult == [raised |-> FALSE, mx |-> FALSE, valid |-> "-", error |-> NoError]

---------------------------------------------------------------------------
(* Leads the verification stage is run on *)

JoeSmith == <<"J","o","e"," ","S","m","i","t","h">>
Acme == <<"A","c","m","e">>
BobAtAIo == <<"b","o","b","@","a",".","i","o">>
BobNoAt == <<"b","o","b">>
SiteA == <<"h","t","t","p","s",":","/","/","w","w","w",".","a",".","i","o","/","x">>
SiteBare == <<"B",".","i","o">>
SiteBadBracket == <<"h","t","t","p",":","/","/","[">>
SiteWwwOnly == <<"w","w","w",".">>
SiteBrace == <<"h","t","t","p",":","/","/","c","{",".","i","o">>

VerifyLeadPool == <<
    \* crawled, an address found
    [name |-> JoeSmith, website |-> SiteA,
     emails_found |-> <<BobAtAIo>>, primary_email |-> BobAtAIo],
    \* a primary_email without '@'
    [name |-> Acme, website |-> SiteA,
     emails_found |-> <<BobNoAt>>, primary_email |-> BobNoAt],
    \* never crawled, name null
    [name |-> None, website |-> SiteBare],
    \* crawled, nothing found
    [name |-> JoeSmith, website |-> SiteA,
     emails_found |-> <<>>, primary_email |-> None],
    \* a domain no template resolves without a brace
    [name |-> Acme, website |-> SiteBrace, emails_found |-> <<>>, primary_email |-> None],
    \* crawled, website empty
    [name |-> Acme, website |-> <<>>, emails_found |-> <<>>, primary_email |-> None],
    \* unparseable website
    [name |-> Acme, website |-> SiteBadBracket,
     emails_found |-> <<>>, primary_email |-> None],
    \* a website whose domain is the empty string
    [name |-> Acme, website |-> SiteWwwOnly],
    \* no website key
    [name |-> Acme] >>

\* The NumLeads consecutive leads of a (cyclic) list, starting at its k-th.
Window(pool, k) == [i \in Idx |-> pool[((k + i - 2) % Len(pool)) + 1]]

InitVerify ==
    /\ stage = "verify"
    /\ leads \in {Window(VerifyLeadPool, k) : k \in 1..Len(VerifyLeadPool)}
    /\ input = leads
    /\ max_workers \in 1..MaxWorkers
    /\ task = [i \in Idx |-> "queued"]
    /\ exc = [i \in Idx |-> ""]
    /\ results = <<>>
    /\ returned = FALSE
    /\ wpc = [i \in Idx |-> "-"]
    /\ domain = [i \in Idx |-> None]
    /\ guesses = [i \in Idx |-> <<>>]
    /\ idx = [i \in Idx |-> 0]
    /\ probes = [i \in Idx |-> <<>>]
    /\ result = [i \in Idx |-> NoResult]
    /\ writes = [i \in Idx |-> 0]
    /\ pages = [i \in Idx |-> <<>>]
    /\ emails = [i \in Idx |-> {}]
    /\ fetched = [i \in Idx |-> <<>>]
    /\ anyHtml = [i \in Idx |-> FALSE]
    /\ delays = [i \in Idx |-> 0]
    /\ outcomes = [i \in Idx |-> {}]
    /\ ran = <<>>
    /\ fn = "-" /\ arg = None /\ out = None
    /\ JOBS = <<>> /\ jobs_dir = <<>>

---------------------------------------------------------------------------
(* ThreadPoolExecutor: tasks start in submission order, at most max_workers *)
(* run at a time.                                                           *)

Running == {i \in Idx : task[i] = "running"}

\* Mutant: a pool that starts every submitted task at once
CanStart_NoLimit(i) ==
    /\ task[i] = "queued"
    /\ \A j \in Idx : j < i => task[j] # "queued"

CanStart(i) ==
    /\ task[i] = "queued"
    /\ \A j \in Idx : j < i => task[j] # "queued"
    /\ Cardinality(Running) < max_workers

\* The worker returns from process_lead after the assignments ws.
WorkerReturns(i, ws) ==
    /\ leads' = [leads EXCEPT ![i] = Apply(@, ws)]
    /\ writes' = [writes EXCEPT ![i] = @ + CountWrites(ws, "email_status")]
    /\ task' = [task EXCEPT ![i] = "done"]
    /\ wpc' = [wpc EXCEPT ![i] = "-"]
    /\ UNCHANGED exc

\* process_lead raises e: the future holds the exception.
WorkerRaises(i, e) ==
    /\ task' = [task EXCEPT ![i] = "raised"]
    /\ exc' = [exc EXCEPT ![i] = e]
    /\ wpc' = [wpc EXCEPT ![i] = "-"]
    /\ UNCHANGED <<leads, writes>>

\* One call of verify_email_smtp by lead i's worker.
Probed(i, kind, email, r) ==
    /\ probes' = [probes EXCEPT ![i] =
                     Append(@, [kind |-> kind, email |-> email, mx |-> r.mx,
                                ok |-> (~r.raised /\ r.valid = "True")])]
    /\ result' = [result EXCEPT ![i] = r]

---------------------------------------------------------------------------
(* verify_email_smtp.py: process_lead, one action per blocking call *)

VerifyStart(i) ==
    /\ stage = "verify"
    /\ CanStart(i)
    /\ task' = [task EXCEPT ![i] = "running"]
    /\ wpc' = [wpc EXCEPT ![i] = "entry"]
    /\ UNCHANGED <<callVars, backendVars, ran, crawlVars, stage, input, leads, max_workers, exc, results, returned,
                   domain, guesses, idx, probes, result, writes>>

\* lines 157-174
VerifyPrimary(i) ==
    /\ stage = "verify" /\ task[i] = "running" /\ wpc[i] = "entry"
    /\ Truthy(Get(leads[i], "primary_email"))
    /\ \E net \in NetOutcomes :
         LET email == leads[i]["primary_email"]
             r == verify_email_smtp(email, net)
         IN  /\ Probed(i, "primary", email, r)
             /\ IF r.raised
                THEN WorkerRaises(i, "list index out of range")
                ELSE WorkerReturns(i, ClassifyPrimary(email, r))
    /\ UNCHANGED <<callVars, backendVars, ran, crawlVars, stage, input, max_workers, results, returned, domain, guesses, idx>>

\* Mutant: if domain is None
DomainAbsent_IsNone(d) == d = None

\* if not domain
DomainAbsent(d) == ~Truthy(d)

\* lines 177-184: the domain of the website, and the return when there is none
VerifyResolve(i) ==
    /\ stage = "verify" /\ task[i] = "running" /\ wpc[i] = "entry"
    /\ ~Truthy(Get(leads[i], "primary_email"))
    /\ LET d == get_domain_from_website(Get(leads[i], "website"))
       IN  IF DomainAbsent(d)
           THEN WorkerReturns(i, ClassifyNoWebsite) /\ UNCHANGED domain
           ELSE /\ domain' = [domain EXCEPT ![i] = d]
                /\ wpc' = [wpc EXCEPT ![i] = "catch_all"]
                /\ UNCHANGED <<leads, writes, task, exc>>
    /\ UNCHANGED <<callVars, backendVars, ran, crawlVars, stage, input, max_workers, results, returned, guesses, idx, probes, result>>

\* lines 187-197: the catch-all probe, and the guess list when it says no
VerifyCatchAll(i) ==
    /\ stage = "verify" /\ task[i] = "running" /\ wpc[i] = "catch_all"
    /\ LET g == generate_email_guesses(leads[i])
           fake == fake_email(domain[i])
       IN  \E net \in NetOutcomes :
             /\ Probed(i, "catch_all", fake, verify_email_smtp(fake, net))
             /\ IF IsCatchAll(check_catch_all(domain[i], net))
                THEN WorkerReturns(i, ClassifyCatchAll(domain[i])) /\ UNCHANGED guesses
                ELSE IF g.raised
                THEN WorkerRaises(i, "'NoneType' object has no attribute 'split'")
                     /\ UNCHANGED guesses
                ELSE IF FirstGuesses(g.guesses) = <<>>
                THEN WorkerReturns(i, ClassifyFallback(domain[i])) /\ UNCHANGED guesses
                ELSE /\ guesses' = [guesses EXCEPT ![i] = FirstGuesses(g.guesses)]
                     /\ wpc' = [wpc EXCEPT ![i] = "guessing"]
                     /\ UNCHANGED <<leads, writes, task, exc>>
    /\ UNCHANGED <<callVars, backendVars, ran, crawlVars, stage, input, max_workers, results, returned, domain, idx>>

\* lines 199-212: one turn of the guess loop, and the fallback after its last
VerifyGuess(i) ==
    /\ stage = "verify" /\ task[i] = "running" /\ wpc[i] = "guessing"
    /\ \E net \in NetOutcomes :
         LET guess == guesses[i][idx[i] + 1]
             r == verify_email_smtp(guess, net)
         IN  /\ Probed(i, "guess", guess, r)
             /\ IF r.raised
                THEN WorkerRaises(i, "list index out of range") /\ UNCHANGED idx
                ELSE IF r.valid = "True"
                THEN WorkerReturns(i, ClassifyGuessed(guess)) /\ UNCHANGED idx
                ELSE IF idx[i] + 1 < Len(guesses[i])
                THEN /\ idx' = [idx EXCEPT ![i] = @ + 1]
                     /\ UNCHANGED <<leads, writes, task, exc, wpc>>
                ELSE WorkerReturns(i, ClassifyFallback(domain[i])) /\ UNCHANGED idx
    /\ UNCHANGED <<callVars, backendVars, ran, crawlVars, stage, input, max_workers, results, returned, domain, guesses>>

---------------------------------------------------------------------------
(* verify_all_leads: the as_completed loop and the return *)

Collected(i) == \E k \in 1..Len(results) : results[k] = i

VerifyCollect(i) ==
    /\ stage = "verify" /\ ~returned
    /\ task[i] \in {"done", "raised"} /\ ~Collected(i)
    /\ results' = Append(results, i)
    /\ IF task[i] = "raised"
       THEN /\ leads' = [leads EXCEPT ![i] = Apply(@, OnVerifyException(exc[i]))]
            /\ writes' = [writes EXCEPT ![i] =
                             @ + CountWrites(OnVerifyException(exc[i]), "email_status")]
       ELSE UNCHANGED <<leads, writes>>
    /\ UNCHANGED <<callVars, backendVars, ran, crawlVars, stage, input, max_workers, task, exc, returned, wpc, domain, guesses,
                   idx, probes, result>>

VerifyReturn ==
    /\ stage = "verify" /\ ~returned
    /\ \A i \in Idx : Collected(i)
    /\ returned' = TRUE
    /\ UNCHANGED <<callVars, backendVars, ran, crawlVars, stage, input, leads, max_workers, task, exc, results, wpc, domain,
                   guesses, idx, probes, result, writes>>

NextVerify ==
    \/ \E i \in Idx : VerifyStart(i)
    \/ \E i \in Idx : VerifyPrimary(i)
    \/ \E i \in Idx : VerifyResolve(i)
    \/ \E i \in Idx : VerifyCatchAll(i)
    \/ \E i \in Idx : VerifyGuess(i)
    \/ \E i \in Idx : VerifyCollect(i)
    \/ VerifyReturn

SpecVerify == InitVerify /\ [][NextVerify]_vars

\* Where the worker of lead i is.
position(i) == <<task[i], wpc[i], idx[i]>>

\* The worker of lead i leaves the call it is in: get_domain_from_website and
\* generate_email_guesses compute, and a probe returns or raises within
\* SMTP_TIMEOUT.
WorkerMoves(i) ==
    /\ stage = "verify" /\ task[i] = "running"
    /\ \E t \in {"running", "done", "raised"} :
       \E w \in {"entry", "catch_all", "guessing", "-"} :
       \E n \in 0..GuessLimit :
          /\ task' = [task EXCEPT ![i] = t]
          /\ wpc' = [wpc EXCEPT ![i] = w]
          /\ idx' = [idx EXCEPT ![i] = n]

\* The pool starts a queued task when a worker is free, a running worker
\* does not stay where it is for ever, and the main thread runs its loop.
FairSpecVerify ==
    /\ SpecVerify
    /\ \A i \in Idx : WF_vars(VerifyStart(i))
    /\ \A i \in Idx : WF_position(i)(WorkerMoves(i))
    /\ \A i \in Idx : WF_vars(VerifyCollect(i))
    /\ WF_vars(VerifyReturn)

---------------------------------------------------------------------------
(* crawl_website_for_email.py: the pure parts *)

Min(P) == CHOOSE k \in P : \A m \in P : k <= m
Max(P) == CHOOSE k \in P : \A m \in P : k >= m

Whitespace == {" ", "\t", "\n", "\r"}

\* s.strip()
Strip(s) ==
    LET keep == {k \in 1..Len(s) : s[k] \notin Whitespace}
    IN  IF keep = {} THEN <<>> ELSE SubSeq(s, Min(keep), Max(keep))

\* s.rstrip(c)
RStrip(s, c) ==
    LET keep == {k \in 1..Len(s) : s[k] # c}
    IN  IF keep = {} THEN <<>> ELSE SubSeq(s, 1, Max(keep))

\* s.replace(old, new): the occurrences of old, left to right, not overlapping
RECURSIVE Replace(_, _, _)
Replace(s, old, new) ==
    LET hits == {k \in 1..(Len(s) - Len(old) + 1) : SubSeq(s, k, k + Len(old) - 1) = old}
    IN  IF hits = {} THEN s
        ELSE SubSeq(s, 1, Min(hits) - 1) \o new
             \o Replace(SubSeq(s, Min(hits) + Len(old), Len(s)), old, new)

\* EMAIL_PATTERN: \b[A-Za-z0-9._%+-]+@[A-Za-z0-9.-]+\.[A-Z|a-z]{2,}\b
LocalChars == Letters \cup Digits \cup {".", "_", "%", "+", "-"}
DomainChars == Letters \cup Digits \cup {".", "-"}
TldChars == Letters \cup {"|"}
WordChars == Letters \cup Digits \cup {"_"}

\* \b before position p of s (p = Len(s) + 1: at the end)
Boundary(s, p) ==
    LET word(k) == k \in 1..Len(s) /\ s[k] \in WordChars
    IN  word(p - 1) # word(p)

\* The last position of the longest run of characters of cs that starts at
\* position i (i - 1 when there is none).
RunEnd(s, i, cs) ==
    LET stop == {k \in i..Len(s) : s[k] \notin cs}
    IN  IF stop = {} THEN Len(s) ELSE Min(stop) - 1

\* The match of EMAIL_PATTERN that starts at position i of s: the position of
\* its last character, 0 when the pattern does not match there.  The local
\* part is the longest run; the domain gives back characters until a '.'
\* follows it, then the top-level part gives back characters until \b holds.
MatchEnd(s, i) ==
    LET at == RunEnd(s, i, LocalChars) + 1
        dEnd == RunEnd(s, at + 1, DomainChars)
        endsFor(dot) == {e \in (dot + 2)..RunEnd(s, dot + 1, TldChars) : Boundary(s, e + 1)}
        dots == {dot \in (at + 2)..dEnd : s[dot] = "." /\ endsFor(dot) # {}}
    IN  IF i \notin 1..Len(s) \/ ~Boundary(s, i) \/ at = i \/ at > Len(s) THEN 0
        ELSE IF s[at] # "@" \/ dots = {} THEN 0
        ELSE Max(endsFor(Max(dots)))

\* EMAIL_PATTERN.findall(s), scanning from position pos
RECURSIVE FindAllFrom(_, _)
FindAllFrom(s, pos) ==
    LET starts == {i \in pos..Len(s) : MatchEnd(s, i) # 0}
    IN  IF starts = {} THEN <<>>
        ELSE <<SubSeq(s, Min(starts), MatchEnd(s, Min(starts)))>>
             \o FindAllFrom(s, MatchEnd(s, Min(starts)) + 1)

\* EMAIL_PATTERN.match(s): a match that starts at the first character
EmailPatternMatch(s) == MatchEnd(s, 1) # 0

Obfuscations == <<
    << <<"[","a","t","]">>, <<"@">> >>, << <<"[","d","o","t","]">>, <<".">> >>,
    << <<" ","a","t"," ">>, <<"@">> >>, << <<" ","d","o","t"," ">>, <<".">> >>,
    << <<"(","a","t",")">>, <<"@">> >>, << <<"(","d","o","t",")">>, <<".">> >> >>

RECURSIVE Deobfuscate(_, _)
Deobfuscate(html, n) ==
    IF n = 0 THEN html
    ELSE Replace(Deobfuscate(html, n - 1), Obfuscations[n][1], Obfuscations[n][2])

FalsePositives == {
    <<".","p","n","g">>, <<".","j","p","g">>, <<".","g","i","f">>, <<".","s","v","g">>, <<"e","x",
        "a","m","p","l","e",".","c","o","m">>, <<"e","m","a","i","l",".","c","o","m">>,
    <<"d","o","m","a","i","n",".","c","o","m">>, <<"y","o","u","r","s","i","t","e">>, <<"y","o","u",
        "r","d","o","m","a","i","n">> }

SystemSenders == { <<"w","o","r","d","p","r","e","s","s">>, <<"w","o","o","c","o","m","m","e","r",
    "c","e">>, <<"a","d","m","i","n","@","l","o","c","a","l","h","o","s","t">> }

\* Mutant: the filters look at the address as it is written
extract_emails_from_html_CaseSensitive(html) ==
    LET all == FindAllFrom(Deobfuscate(html, Len(Obfuscations)), 1)
        emails_ == {all[k] : k \in 1..Len(all)}
    IN  {email \in emails_ :
            /\ ~\E x \in FalsePositives : Contains(email, x)
            /\ ~\E x \in SystemSenders : Contains(email, x)}

extract_emails_from_html(html) ==
    LET all == FindAllFrom(Deobfuscate(html, Len(Obfuscations)), 1)
        emails_ == {all[k] : k \in 1..Len(all)}
    IN  {email \in emails_ :
            /\ ~\E x \in FalsePositives : Contains(Lower(email), x)
            /\ ~\E x \in SystemSenders : Contains(Lower(email), x)}

HttpPrefix == <<"h","t","t","p",":","/","/">>
HttpsPrefix == <<"h","t","t","p","s",":","/","/">>

\* Mutant: without the test of an empty or null website
normalize_website_NoEmptyCheck(website) ==
    IF ~IsStr(website) THEN [raised |-> TRUE, value |-> None]
    ELSE LET w == RStrip(Strip(website), "/")
         IN  [raised |-> FALSE,
              value |-> IF StartsWith(w, HttpPrefix) \/ StartsWith(w, HttpsPrefix)
                        THEN w ELSE HttpsPrefix \o w]

\* None for an empty or null website; a website that is not a str has no
\* strip() and raises.
normalize_website(website) ==
    IF ~Truthy(website) THEN [raised |-> FALSE, value |-> None]
    ELSE IF ~IsStr(website) THEN [raised |-> TRUE, value |-> None]
    ELSE LET w == RStrip(Strip(website), "/")
         IN  [raised |-> FALSE,
              value |-> IF StartsWith(w, HttpPrefix) \/ StartsWith(w, HttpsPrefix)
                        THEN w ELSE HttpsPrefix \o w]

get_base_url(url) ==
    LET parsed == urlparse(url)
    IN  [raised |-> parsed.raised,
         value |-> parsed.scheme \o <<":","/","/">> \o parsed.netloc]

CONTACT_PATHS == <<
    <<"/","c","o","n","t","a","c","t">>, <<"/","c","o","n","t","a","c","t","-","u","s">>, <<"/","c",
        "o","n","t","a","c","t","u","s">>, <<"/","a","b","o","u","t">>, <<"/","a","b","o","u","t",
            "-","u","s">>,
    <<"/","a","b","o","u","t","u","s">>, <<"/","t","e","a","m">>, <<"/","o","u","r","-","t","e","a",
        "m">>, <<"/","s","t","a","f","f">>, <<"/","g","e","t","-","i","n","-","t","o","u","c",
            "h">> >>

\* urljoin(base_url, path) of a base without a path and a path that starts
\* with '/'
urljoin(base_url, path) == base_url \o path

\* Mutant: the homepage only
pages_to_check_HomeOnly(website, base_url) == <<website>>

pages_to_check(website, base_url) ==
    <<website>> \o [k \in 1..Len(CONTACT_PATHS) |-> urljoin(base_url, CONTACT_PATHS[k])]

MailtoPrefix == <<"m","a","i","l","t","o",":">>

\* href.replace('mailto:', '').split('?')[0].strip()
mailto_address(href) == Strip(Split(Replace(href, MailtoPrefix, <<>>), "?")[1])

\* The addresses the loop over the page's links adds.
mailto_emails(hrefs) ==
    {mailto_address(hrefs[k]) : k \in {n \in 1..Len(hrefs) :
        StartsWith(hrefs[n], MailtoPrefix) /\ EmailPatternMatch(mailto_address(hrefs[n]))}}

\* What a fetch can give: html is the text fetch_page returns ('' after any
\* failure of the request), hrefs are the href attributes of the a elements
\* BeautifulSoup finds in it, parses is FALSE when BeautifulSoup raises.
PageFailed == [html |-> <<>>, hrefs |-> <<>>, parses |-> TRUE]
PageContact ==
    [html |-> <<"<","a"," ","h","r","e","f","=","\"","m","a","i","l","t","o",":","b","o","b","@",
        "a",".","i","o","?","s","=","x","\"",">","B","o","b","@","a",".","i","o","<","/","a",">">>,
     hrefs |-> << <<"m","a","i","l","t","o",":","b","o","b","@","a",".","i","o","?","s","=",
         "x">> >>, parses |-> TRUE]
PagePlain == [html |-> <<"<","p",">","h","i","<","/","p",">">>, hrefs |-> <<>>, parses |-> TRUE]
PageRejected ==
    [html |-> <<"B","o","b"," ","a","t"," ","a",".","i","o">>,
     hrefs |-> <<>>, parses |-> FALSE]

PageOutcomes == {PageFailed, PageContact, PagePlain, PageRejected}

\* The addresses found in the text of each page.
found_in == [p \in PageOutcomes |-> extract_emails_from_html(p.html)]
\* The addresses of the mailto links of each page.
mailto_in == [p \in PageOutcomes |-> mailto_emails(p.hrefs)]

\* list(emails): the elements of the set in an order that depends on the
\* hashes of the strings
ListsOf(S) ==
    {f \in [1..Cardinality(S) -> S] : \A a, b \in 1..Cardinality(S) : f[a] = f[b] => a = b}

\* Mutant: the last address of the list becomes the primary one
CrawlFound_LastIsPrimary(found) ==
    << <<"emails_found", found>>,
       <<"primary_email", IF found # <<>> THEN found[Len(found)] ELSE None>> >>

\* process_lead, a website crawled
CrawlFound(found) ==
    << <<"emails_found", found>>,
       <<"primary_email", IF found # <<>> THEN found[1] ELSE None>> >>

\* Mutant: the branch without a website also resets the status
CrawlNoWebsite_ResetsStatus ==
    << <<"emails_found", <<>>>>, <<"primary_email", None>>, <<"email_status", None>> >>

\* process_lead, no website
CrawlNoWebsite == << <<"emails_found", <<>>>>, <<"primary_email", None>> >>

\* Mutant: the handler records the error only
OnCrawlException_ErrorOnly(e) == << <<"error", e>> >>

\* crawl_all_websites, except Exception as e
OnCrawlException(e) ==
    << <<"emails_found", <<>>>>, <<"primary_email", None>>, <<"error", e>> >>

---------------------------------------------------------------------------
(* crawl_website_for_email.py: the batch, and direct calls of              *)
(* crawl_website_for_emails                                                *)

SiteCrawled == <<"a",".","i","o","/">>
SiteSpaces == <<" ">>

CrawlLeadPool == <<
    [name |-> Acme, website |-> SiteCrawled],
    [name |-> JoeSmith, website |-> NonStr],
    [name |-> Acme, website |-> <<>>],
    [name |-> Acme, website |-> None],
    [name |-> JoeSmith, website |-> SiteBadBracket],
    [name |-> Acme] >>

\* The arguments of direct calls of crawl_website_for_emails.
SiteCallPool == <<
    [website |-> <<>>],
    [website |-> None],
    [website |-> SiteSpaces],
    [website |-> SiteBadBracket],
    [website |-> NonStr] >>

InitCrawl ==
    /\ \/ /\ stage = "crawl"
          /\ leads \in {Window(CrawlLeadPool, k) : k \in 1..Len(CrawlLeadPool)}
          /\ max_workers \in 1..MaxWorkers
          /\ task = [i \in Idx |-> "queued"]
          /\ wpc = [i \in Idx |-> "-"]
       \/ /\ stage = "site"
          /\ leads \in {Window(SiteCallPool, k) : k \in 1..Len(SiteCallPool)}
          /\ max_workers = NumLeads
          /\ task = [i \in Idx |-> "running"]
          /\ wpc = [i \in Idx |-> "call"]
    /\ input = leads
    /\ exc = [i \in Idx |-> ""]
    /\ results = <<>>
    /\ returned = FALSE
    /\ domain = [i \in Idx |-> None]
    /\ guesses = [i \in Idx |-> <<>>]
    /\ idx = [i \in Idx |-> 0]
    /\ probes = [i \in Idx |-> <<>>]
    /\ result = [i \in Idx |-> NoResult]
    /\ writes = [i \in Idx |-> 0]
    /\ pages = [i \in Idx |-> <<>>]
    /\ emails = [i \in Idx |-> {}]
    /\ fetched = [i \in Idx |-> <<>>]
    /\ anyHtml = [i \in Idx |-> FALSE]
    /\ delays = [i \in Idx |-> 0]
    /\ outcomes = [i \in Idx |-> {}]
    /\ ran = <<>>
    /\ fn = "-" /\ arg = None /\ out = None
    /\ JOBS = <<>> /\ jobs_dir = <<>>

\* crawl_website_for_emails returns the set E: to process_lead, which writes
\* the lead (lines 163-164), or to a direct caller.
SiteReturns(i, E) ==
    /\ emails' = [emails EXCEPT ![i] = E]
    /\ IF stage = "crawl"
       THEN \E found \in ListsOf(E) : WorkerReturns(i, CrawlFound(found))
       ELSE WorkerReturns(i, <<>>)

\* lines 123-130 of crawl_website_for_emails
SiteEnter(i, website) ==
    LET n == normalize_website(website)
        b == get_base_url(n.value)
    IN  IF n.raised
        THEN /\ WorkerRaises(i, "'int' object has no attribute 'strip'")
             /\ UNCHANGED <<pages, emails>>
        ELSE IF ~Truthy(n.value)
        THEN SiteReturns(i, {}) /\ UNCHANGED pages
        ELSE IF b.raised
        THEN /\ WorkerRaises(i, "Invalid IPv6 URL")
             /\ UNCHANGED <<pages, emails>>
        ELSE /\ pages' = [pages EXCEPT ![i] = pages_to_check(n.value, b.value)]
             /\ wpc' = [wpc EXCEPT ![i] = "pages"]
             /\ UNCHANGED <<leads, writes, task, exc, emails>>

CrawlStart(i) ==
    /\ stage = "crawl"
    /\ CanStart(i)
    /\ task' = [task EXCEPT ![i] = "running"]
    /\ wpc' = [wpc EXCEPT ![i] = "entry"]
    /\ UNCHANGED <<callVars, backendVars, ran, crawlVars, verifyVars, stage, input, leads, max_workers, exc, results,
                   returned, idx, writes>>

\* process_lead up to the first fetch
CrawlLead(i) ==
    /\ stage = "crawl" /\ task[i] = "running" /\ wpc[i] = "entry"
    /\ LET website == Get(leads[i], "website")
       IN  IF Truthy(website)
           THEN SiteEnter(i, website)
           ELSE WorkerReturns(i, CrawlNoWebsite) /\ UNCHANGED <<pages, emails>>
    /\ UNCHANGED <<callVars, backendVars, ran, verifyVars, stage, input, max_workers, results, returned, idx,
                   fetched, anyHtml, delays, outcomes>>

\* A direct call of crawl_website_for_emails, up to the first fetch
SiteCall(i) ==
    /\ stage = "site" /\ task[i] = "running" /\ wpc[i] = "call"
    /\ SiteEnter(i, leads[i]["website"])
    /\ UNCHANGED <<callVars, backendVars, ran, verifyVars, stage, input, max_workers, results, returned, idx,
                   fetched, anyHtml, delays, outcomes>>

\* lines 132-154: one turn of the loop over the pages, and the return after
\* the last
SitePage(i) ==
    /\ stage \in {"crawl", "site"} /\ task[i] = "running" /\ wpc[i] = "pages"
    /\ \E p \in PageOutcomes :
         LET E == IF p.html = <<>> THEN emails[i]
                  ELSE IF ~p.parses THEN emails[i] \cup found_in[p]
                  ELSE emails[i] \cup found_in[p] \cup mailto_in[p]
             slept == p.html = <<>> \/ p.parses
         IN  /\ fetched' = [fetched EXCEPT ![i] = Append(@, pages[i][idx[i] + 1])]
             /\ anyHtml' = [anyHtml EXCEPT ![i] = @ \/ p.html # <<>>]
             /\ outcomes' = [outcomes EXCEPT ![i] = @ \cup {p}]
             /\ delays' = [delays EXCEPT ![i] = IF slept THEN @ + 1 ELSE @]
             /\ idx' = [idx EXCEPT ![i] = @ + 1]
             /\ IF idx[i] + 1 < Len(pages[i])
                THEN /\ emails' = [emails EXCEPT ![i] = E]
                     /\ UNCHANGED <<leads, writes, task, exc, wpc>>
                ELSE SiteReturns(i, E)
    /\ UNCHANGED <<callVars, backendVars, ran, verifyVars, stage, input, max_workers, results, returned, pages>>

CrawlCollect(i) ==
    /\ stage = "crawl" /\ ~returned
    /\ task[i] \in {"done", "raised"} /\ ~Collected(i)
    /\ results' = Append(results, i)
    /\ IF task[i] = "raised"
       THEN leads' = [leads EXCEPT ![i] = Apply(@, OnCrawlException(exc[i]))]
       ELSE UNCHANGED leads
    /\ UNCHANGED <<callVars, backendVars, ran, crawlVars, verifyVars, stage, input, max_workers, task, exc, returned,
                   wpc, idx, writes>>

CrawlReturn ==
    /\ stage = "crawl" /\ ~returned
    /\ \A i \in Idx : Collected(i)
    /\ returned' = TRUE
    /\ UNCHANGED <<callVars, backendVars, ran, crawlVars, verifyVars, stage, input, leads, max_workers, task, exc,
                   results, wpc, idx, writes>>

NextCrawl ==
    \/ \E i \in Idx : CrawlStart(i)
    \/ \E i \in Idx : CrawlLead(i)
    \/ \E i \in Idx : SiteCall(i)
    \/ \E i \in Idx : SitePage(i)
    \/ \E i \in Idx : CrawlCollect(i)
    \/ CrawlReturn

SpecCrawl == InitCrawl /\ [][NextCrawl]_vars

\* A worker thread that is inside the loop over the pages keeps running: a
\* request ends within REQUEST_TIMEOUT and a sleep within 1.5 seconds.
FairSpecCrawl == SpecCrawl /\ \A i \in Idx : WF_vars(SitePage(i))

---------------------------------------------------------------------------
(* The two scripts run one after the other, in either order, each reading   *)
(* the JSON file the one before it saved.                                   *)

\* Leads as scrape_google_maps leaves them: no crawl and no verify fields.
StagePool == <<
    [name |-> Acme, website |-> SiteCrawled],
    [name |-> JoeSmith, website |-> NonStr],
    [name |-> Acme, website |-> <<>>],
    [name |-> JoeSmith, website |-> SiteBadBracket],
    [name |-> Acme] >>

Stages == {"crawl", "verify"}

InitStages ==
    /\ stage \in Stages
    /\ leads \in {Window(StagePool, k) : k \in 1..Len(StagePool)}
    /\ input = leads
    /\ max_workers \in 1..MaxWorkers
    /\ task = [i \in Idx |-> "queued"]
    /\ exc = [i \in Idx |-> ""]
    /\ results = <<>>
    /\ returned = FALSE
    /\ wpc = [i \in Idx |-> "-"]
    /\ domain = [i \in Idx |-> None]
    /\ guesses = [i \in Idx |-> <<>>]
    /\ idx = [i \in Idx |-> 0]
    /\ probes = [i \in Idx |-> <<>>]
    /\ result = [i \in Idx |-> NoResult]
    /\ writes = [i \in Idx |-> 0]
    /\ pages = [i \in Idx |-> <<>>]
    /\ emails = [i \in Idx |-> {}]
    /\ fetched = [i \in Idx |-> <<>>]
    /\ anyHtml = [i \in Idx |-> FALSE]
    /\ delays = [i \in Idx |-> 0]
    /\ outcomes = [i \in Idx |-> {}]
    /\ ran = <<>>
    /\ fn = "-" /\ arg = None /\ out = None
    /\ JOBS = <<>> /\ jobs_dir = <<>>

\* main() of the script that just ran saves results, in the order they were
\* appended; main() of the other script loads that file and calls its batch
\* function on the list.
NextStage(s) ==
    /\ stage \in Stages /\ returned
    /\ s \in Stages \ {stage} /\ \A k \in 1..Len(ran) : ran[k] # s
    /\ ran' = Append(ran, stage)
    /\ stage' = s
    /\ leads' = [k \in Idx |-> leads[results[k]]]
    /\ input' = leads'
    /\ max_workers' \in 1..MaxWorkers
    /\ task' = [i \in Idx |-> "queued"]
    /\ exc' = [i \in Idx |-> ""]
    /\ results' = <<>>
    /\ returned' = FALSE
    /\ wpc' = [i \in Idx |-> "-"]
    /\ domain' = [i \in Idx |-> None]
    /\ guesses' = [i \in Idx |-> <<>>]
    /\ idx' = [i \in Idx |-> 0]
    /\ probes' = [i \in Idx |-> <<>>]
    /\ result' = [i \in Idx |-> NoResult]
    /\ writes' = [i \in Idx |-> 0]
    /\ pages' = [i \in Idx |-> <<>>]
    /\ emails' = [i \in Idx |-> {}]
    /\ fetched' = [i \in Idx |-> <<>>]
    /\ anyHtml' = [i \in Idx |-> FALSE]
    /\ delays' = [i \in Idx |-> 0]
    /\ outcomes' = [i \in Idx |-> {}]
    /\ UNCHANGED <<callVars, backendVars>>

NextStages ==
    \/ \E i \in Idx : CrawlStart(i)
    \/ \E i \in Idx : CrawlLead(i)
    \/ \E i \in Idx : SitePage(i)
    \/ \E i \in Idx : CrawlCollect(i)
    \/ CrawlReturn
    \/ \E i \in Idx : VerifyStart(i)
    \/ \E i \in Idx : VerifyPrimary(i)
    \/ \E i \in Idx : VerifyResolve(i)
    \/ \E i \in Idx : VerifyCatchAll(i)
    \/ \E i \in Idx : VerifyGuess(i)
    \/ \E i \in Idx : VerifyCollect(i)
    \/ VerifyReturn
    \/ \E s \in Stages : NextStage(s)

SpecStages == InitStages /\ [][NextStages]_vars

---------------------------------------------------------------------------
(* Direct calls of the pure functions of the two modules *)

\* The value of a call that raised.
Raised == <<"<raised>">>

JoeSmithPlumbing == <<"J","o","e"," ","S","m","i","t","h"," ","P","l","u","m","b","i","n","g">>
Joe == <<"J","o","e">>
SiteExampleOrg == <<"h","t","t","p",":","/","/","e","x","a","m","p","l","e",".","o","r","g">>

\* Arguments of generate_email_guesses.
GuessNames == {JoeSmithPlumbing, JoeSmith, Joe, Acme, <<" ","A","l"," "," ","B","O",
    " ">>, <<>>, None}
GuessWebsites == {SiteExampleOrg, SiteA, SiteBare, SiteBrace, SiteBadBracket, <<>>}
GuessArgs ==
    {[name |-> n, website |-> w] : n \in GuessNames, w \in GuessWebsites}
    \cup {[website |-> w] : w \in GuessWebsites}

\* Arguments of get_domain_from_website: a website written as scheme, www
\* prefix, host, port and path, and the inputs that have no domain.
WebsiteParts ==
    [scheme : {<<>>, <<"h","t","t","p",":","/","/">>, <<"H","T","T","P","S",":","/","/">>},
     www : {<<>>, <<"w","w","w",".">>, <<"W","W","W",".">>},
     host : {<<"a",".","i","o">>, <<"E","x","a","m","p","l","e",".","C","O","M">>},
     port : {<<>>, <<":","8","0","8","0">>},
     path : {<<>>, <<"/","x">>}]

WebsiteOfParts(p) == p.scheme \o p.www \o p.host \o p.port \o p.path

DomainArgs ==
    {WebsiteOfParts(p) : p \in WebsiteParts} \cup {<<>>, None, NonStr, SiteBadBracket}

\* Arguments of extract_emails_from_html: one or two addresses as a page
\* may write them.
HtmlLocals == {<<"B","o","b">>, <<"b","o","b">>, <<"i","m","g">>, <<"W","o","r","d","P","r","e","s",
    "s">>}
HtmlAts == {<<"@">>, <<" ","a","t"," ">>, <<"[","a","t","]">>}
HtmlDomains == {<<"a",".","i","o">>, <<"A",".","I","O">>, <<"E","x","a","m","p","l","e",".","C","O",
    "M">>, <<"2","x",".","P","N","G">>, <<"y","o","u","r","s","i","t","e",".","n","e","t">>}
HtmlAddresses == {l \o a \o d : l \in HtmlLocals, a \in HtmlAts, d \in HtmlDomains}
HtmlArgs ==
    HtmlAddresses
    \cup {<<"B","o","b","@","a",".","i","o"," ">> \o h : h \in HtmlAddresses}
    \cup {<<>>, <<"<","p",">","h","i","<","/","p",">">>}

InitCalls ==
    /\ stage = "call"
    /\ \/ fn = "generate_email_guesses" /\ arg \in GuessArgs
       \/ fn = "get_domain_from_website" /\ arg \in DomainArgs
       \/ fn = "extract_emails_from_html" /\ arg \in HtmlArgs
    /\ out = None
    /\ JOBS = <<>> /\ jobs_dir = <<>>
    /\ leads = <<>> /\ input = <<>> /\ max_workers = 1
    /\ task = [i \in Idx |-> "queued"]
    /\ exc = [i \in Idx |-> ""]
    /\ results = <<>>
    /\ returned = FALSE
    /\ wpc = [i \in Idx |-> "-"]
    /\ domain = [i \in Idx |-> None]
    /\ guesses = [i \in Idx |-> <<>>]
    /\ idx = [i \in Idx |-> 0]
    /\ probes = [i \in Idx |-> <<>>]
    /\ result = [i \in Idx |-> NoResult]
    /\ writes = [i \in Idx |-> 0]
    /\ pages = [i \in Idx |-> <<>>]
    /\ emails = [i \in Idx |-> {}]
    /\ fetched = [i \in Idx |-> <<>>]
    /\ anyHtml = [i \in Idx |-> FALSE]
    /\ delays = [i \in Idx |-> 0]
    /\ outcomes = [i \in Idx |-> {}]
    /\ ran = <<>>

\* The call returns (or raises).
Returns(value) ==
    /\ out' = value
    /\ stage' = "returned"
    /\ UNCHANGED <<fn, arg, backendVars, ran, crawlVars, verifyVars, input, leads, max_workers, task, exc,
                   results, returned, wpc, idx, writes>>

CallGuess ==
    /\ stage = "call" /\ fn = "generate_email_guesses"
    /\ LET g == generate_email_guesses(arg)
       IN  Returns(IF g.raised THEN Raised ELSE g.guesses)

CallDomain ==
    /\ stage = "call" /\ fn = "get_domain_from_website"
    /\ Returns(get_domain_from_website(arg))

CallExtract ==
    /\ stage = "call" /\ fn = "extract_emails_from_html"
    /\ Returns(extract_emails_from_html(arg))

NextCalls == CallGuess \/ CallDomain \/ CallExtract

SpecCalls == InitCalls /\ [][NextCalls]_vars

---------------------------------------------------------------------------
(* The command lines of the two scripts: main() reads --workers and passes  *)
(* it to the batch function as max_workers.                                 *)

\* The batch variables while no batch is running.
NoBatch ==
    /\ leads = <<>> /\ input = <<>>
    /\ task = [i \in Idx |-> "queued"]
    /\ exc = [i \in Idx |-> ""]
    /\ results = <<>>
    /\ returned = FALSE
    /\ wpc = [i \in Idx |-> "-"]
    /\ domain = [i \in Idx |-> None]
    /\ guesses = [i \in Idx |-> <<>>]
    /\ idx = [i \in Idx |-> 0]
    /\ probes = [i \in Idx |-> <<>>]
    /\ result = [i \in Idx |-> NoResult]
    /\ writes = [i \in Idx |-> 0]
    /\ pages = [i \in Idx |-> <<>>]
    /\ emails = [i \in Idx |-> {}]
    /\ fetched = [i \in Idx |-> <<>>]
    /\ anyHtml = [i \in Idx |-> FALSE]
    /\ delays = [i \in Idx |-> 0]
    /\ outcomes = [i \in Idx |-> {}]

batchVars == <<leads, input, task, exc, results, returned, wpc, domain, guesses, idx, probes,
               result, writes, pages, emails, fetched, anyHtml, delays, outcomes>>

\* The largest --workers value a command line is given.
MaxWorkersArg == 6

\* type=int, default=5 and default=3: the value of --workers when the option
\* is given (one token follows it), the default when it is not.
CrawlWorkersDefault == 5
VerifyWorkersDefault == 3
WorkersOptions == {<<>>} \cup {<<n>> : n \in 1..MaxWorkersArg}
args_workers(option, default) == IF option = <<>> THEN default ELSE option[1]

\* arg: the --workers option of each script's command line; out: the pool
\* size each script that has run gave its ThreadPoolExecutor.
InitMain ==
    /\ stage = "main"
    /\ fn = "-"
    /\ arg \in [Stages -> WorkersOptions]
    /\ out = <<>>
    /\ max_workers = 1
    /\ ran = <<>>
    /\ JOBS = <<>> /\ jobs_dir = <<>>
    /\ NoBatch

Main(script, default) ==
    /\ stage = "main"
    /\ script \notin DOMAIN out
    /\ fn' = script
    /\ max_workers' = args_workers(arg[script], default)
    /\ out' = SetKey(out, script, max_workers')
    /\ ran' = Append(ran, script)
    /\ UNCHANGED <<stage, arg, batchVars, backendVars>>

MainCrawl == Main("crawl", CrawlWorkersDefault)

MainVerify == Main("verify", VerifyWorkersDefault)

NextMain == MainCrawl \/ MainVerify

SpecMain == InitMain /\ [][NextMain]_vars

---------------------------------------------------------------------------
(* crawl_website_for_emails: what the loop body makes of one fetched page,  *)
(* a page being the a elements BeautifulSoup finds in it.                   *)

\* The most a elements a page holds.
MaxLinks == 2

HrefPool == {
    <<"m","a","i","l","t","o",":","b","o","b","@","a",".","i","o">>, <<"m","a","i","l","t","o",":",
        "b","o","b","@","a",".","i","o","?","s","=","x">>, <<"m","a","i","l","t","o",":"," ","b",
            "o","b","@","a",".","i","o"," ">>,
    <<"m","a","i","l","t","o",":","b","o","b","@","a",".","i","o",",","a","n","n","@","a",".","i",
        "o">>, <<"m","a","i","l","t","o",":","b","o","b","@","a",".","i","o","/","x">>,
    <<"m","a","i","l","t","o",":","i","n","f","o","@","e","x","a","m","p","l","e",".","c","o",
        "m">>, <<"m","a","i","l","t","o",":","x">>, <<"/","c","o","n","t","a","c","t">>}

PageHrefs == UNION {[1..n -> HrefPool] : n \in 0..MaxLinks}

\* The page's text: one a element per href.
RECURSIVE page_html(_)
page_html(hrefs) ==
    IF hrefs = <<>> THEN <<>>
    ELSE <<"<","a"," ","h","r","e","f","=","\"">> \o Head(hrefs) \o <<"\"",">","x","<","/","a",
        ">">> \o page_html(Tail(hrefs))

\* arg: the page fetched; out: the set emails after the page.
InitPage ==
    /\ stage = "page"
    /\ fn = "crawl_website_for_emails"
    /\ \E hrefs \in PageHrefs : arg = [html |-> page_html(hrefs), hrefs |-> hrefs]
    /\ out = None
    /\ max_workers = 1
    /\ ran = <<>>
    /\ JOBS = <<>> /\ jobs_dir = <<>>
    /\ NoBatch

\* emails.update(found), then emails.add(email) for the mailto links.
CrawlPage ==
    /\ stage = "page"
    /\ out' = extract_emails_from_html(arg.html) \cup mailto_emails(arg.hrefs)
    /\ stage' = "returned"
    /\ UNCHANGED <<fn, arg, max_workers, ran, batchVars, backendVars>>

NextPage == CrawlPage

SpecPage == InitPage /\ [][NextPage]_vars

---------------------------------------------------------------------------
(* run_lead_gen.py: main() of the orchestrator, one action per step.  As    *)
(* committed, line 138 (the banner's print) is indented one column deeper   *)
(* than the statements around it, which Python rejects when it compiles the *)
(* file; the actions below are main() with that line at the indentation of  *)
(* its neighbours.                                                          *)

\* line 35-52: no file is written without a job id; open(status_file, 'w')
\* replaces what the file held.  jobs_dir keeps every status written.
update_status(dir, job_id, status) ==
    IF ~Truthy(job_id) THEN dir
    ELSE SetKey(dir, job_id, Append(GetOr(dir, job_id, <<>>), status))

\* action="store_true" with the default given: the flag sets the value True
store_true_NoDefault(default, given) == given

store_true(default, given) == IF given THEN TRUE ELSE default

\* parser.parse_args(): the four skip options and --job-id.  The command
\* line says which flags were given.
parse_args(argv) ==
    [skip_maps |-> store_true(FALSE, argv.skip_maps),
     skip_crawl |-> store_true(TRUE, argv.skip_crawl),
     skip_verify |-> store_true(TRUE, argv.skip_verify),
     skip_sheets |-> store_true(FALSE, argv.skip_sheets),
     job_id |-> argv.job_id]

\* lines 198-202: the file the Sheets export is given
input_file(args) ==
    IF ~args.skip_crawl /\ ~args.skip_verify THEN "verified_leads.json"
    ELSE IF ~args.skip_crawl THEN "emails_found.json"
    ELSE "maps_results.json"

JobId1 == <<"j","1">>

CommandLines ==
    [skip_maps : BOOLEAN, skip_crawl : BOOLEAN, skip_verify : BOOLEAN, skip_sheets : BOOLEAN,
     job_id : {None, <<>>, JobId1}]

\* arg: the command line; fn: where main() is; out: args; ran: the steps
\* run_step has run, in order, with what each returned.
InitRun ==
    /\ stage = "run"
    /\ fn = "start"
    /\ arg \in CommandLines
    /\ out = None
    /\ ran = <<>>
    /\ max_workers = 1
    /\ JOBS = <<>> /\ jobs_dir = <<>>
    /\ NoBatch

\* lines 133-154: parse the command line, write status running
RunStart ==
    /\ stage = "run" /\ fn = "start"
    /\ out' = parse_args(arg)
    /\ jobs_dir' = update_status(jobs_dir, out'.job_id, "running")
    /\ fn' = "maps"
    /\ UNCHANGED <<stage, arg, ran, max_workers, JOBS, batchVars>>

\* One step of the pipeline: skipped, or run by run_step, which returns
\* whether the script exited with 0; a failure writes failed and exits.
Step(at, step, skip, then) ==
    /\ stage = "run" /\ fn = at
    /\ IF skip
       THEN fn' = then /\ UNCHANGED <<ran, jobs_dir>>
       ELSE \E success \in BOOLEAN :
              /\ ran' = Append(ran, [step |-> step, success |-> success, input |-> "-"])
              /\ IF success
                 THEN fn' = then /\ UNCHANGED jobs_dir
                 ELSE /\ jobs_dir' = update_status(jobs_dir, out.job_id, "failed")
                      /\ fn' = "exit 1"
    /\ UNCHANGED <<stage, arg, out, max_workers, JOBS, batchVars>>

StepMaps == Step("maps", "maps", out.skip_maps, "crawl")

StepCrawl == Step("crawl", "crawl", out.skip_crawl, "verify")

StepVerify == Step("verify", "verify", out.skip_verify, "sheets")

\* lines 196-225: open(input_file) is outside run_step and any try: a missing
\* file ends main() with the exception.  The file is looked for in TMP_DIR of
\* this script (line 32, three directories up), which is not the directory
\* the scraper saves to (two up from the scraper), so it is there or not
\* whatever the scraping step did.
StepSheets ==
    /\ stage = "run" /\ fn = "sheets"
    /\ IF out.skip_sheets
       THEN fn' = "complete" /\ UNCHANGED <<ran, jobs_dir>>
       ELSE \E exists \in BOOLEAN :
              IF ~exists
              THEN fn' = "raised" /\ UNCHANGED <<ran, jobs_dir>>
              ELSE \E success \in BOOLEAN :
                     /\ ran' = Append(ran, [step |-> "sheets", success |-> success,
                                            input |-> input_file(out)])
                     /\ IF success
                        THEN fn' = "complete" /\ UNCHANGED jobs_dir
                        ELSE /\ jobs_dir' = update_status(jobs_dir, out.job_id, "failed")
                             /\ fn' = "exit 1"
    /\ UNCHANGED <<stage, arg, out, max_workers, JOBS, batchVars>>

\* line 232
RunComplete ==
    /\ stage = "run" /\ fn = "complete"
    /\ jobs_dir' = update_status(jobs_dir, out.job_id, "completed")
    /\ fn' = "exit 0"
    /\ UNCHANGED <<stage, arg, out, ran, max_workers, JOBS, batchVars>>

NextRun == RunStart \/ StepMaps \/ StepCrawl \/ StepVerify \/ StepSheets \/ RunComplete

SpecRun == InitRun /\ [][NextRun]_vars

---------------------------------------------------------------------------
(* main.py: the job endpoints, and the orchestrator process each job runs.  *)
(* As committed, lines 92-93 repeat the end of the Popen call at a deeper   *)
(* indentation, which Python rejects when it compiles the file; the actions *)
(* below are the two handlers without those two lines.                      *)

\* The most jobs started.
NumJobs == 2

JobId2 == <<"j","2">>
JobId3 == <<"j","3">>
JobIds == IF NumJobs >= 3 THEN {JobId1, JobId2, JobId3} ELSE {JobId1, JobId2}

\* The ids a client asks about: those uuid4() gave out, and one it never did.
UnknownJobId == <<"x">>
RequestIds == JobIds \cup {UnknownJobId}

\* What <job_id>.json holds: the last thing written, "" between open(.., 'w')
\* and the end of json.dump.
Content(dir, job_id) == dir[job_id][Len(dir[job_id])]

\* Mutant: without a file, a job whose process has ended is reported failed
\* and an id that was never issued is reported unknown
get_job_status_PollsProcess(dir, jobs, job_id) ==
    IF job_id \notin DOMAIN dir
    THEN (IF job_id \notin DOMAIN jobs THEN [status |-> "unknown"]
          ELSE IF jobs[job_id] = "alive" THEN [status |-> "running"]
          ELSE [status |-> "failed"])
    ELSE IF Content(dir, job_id) = ""
    THEN [status |-> "failed", error |-> "Failed to read status"]
    ELSE [job_id |-> job_id, status |-> Content(dir, job_id)]

\* lines 110-126.  poll() is None while the process is alive.
get_job_status(dir, jobs, job_id) ==
    IF job_id \notin DOMAIN dir
    THEN (IF job_id \in DOMAIN jobs /\ jobs[job_id] = "alive" THEN [status |-> "running"]
          ELSE [status |-> "running"])
    ELSE IF Content(dir, job_id) = ""
    THEN [status |-> "failed", error |-> "Failed to read status"]
    ELSE [job_id |-> job_id, status |-> Content(dir, job_id)]

\* The statuses the orchestrator has written for the job.
Written(dir, job_id) ==
    IF job_id \notin DOMAIN dir THEN <<>>
    ELSE SelectSeq(dir[job_id], LAMBDA c : c # "")

\* fn, arg, out: the last request answered, its job id, and the answer with
\* what the handler saw.
InitApi ==
    /\ stage = "api"
    /\ fn = "-" /\ arg = None /\ out = None
    /\ JOBS = <<>> /\ jobs_dir = <<>>
    /\ ran = <<>>
    /\ max_workers = 1
    /\ NoBatch

\* POST /api/run-lead-gen, lines 47-104: a new id, the process started, the
\* process kept in JOBS.
RunLeadGen(job_id) ==
    /\ stage = "api"
    /\ job_id \notin DOMAIN JOBS
    /\ JOBS' = SetKey(JOBS, job_id, "alive")
    /\ fn' = "run_lead_gen" /\ arg' = None
    /\ out' = [status |-> "Job Started", job_id |-> job_id]
    /\ UNCHANGED <<stage, jobs_dir, ran, max_workers, batchVars>>

\* The job's process opens its status file for writing: update_status, line 51
JobOpensStatus(job_id) ==
    /\ stage = "api"
    /\ job_id \in DOMAIN JOBS /\ JOBS[job_id] = "alive"
    /\ Written(jobs_dir, job_id) \in {<<>>, <<"running">>}
    /\ (job_id \in DOMAIN jobs_dir => Content(jobs_dir, job_id) # "")
    /\ jobs_dir' = SetKey(jobs_dir, job_id, Append(GetOr(jobs_dir, job_id, <<>>), ""))
    /\ UNCHANGED <<stage, fn, arg, out, JOBS, ran, max_workers, batchVars>>

\* and writes the status: running first, then failed or completed
JobWritesStatus(job_id, status) ==
    /\ stage = "api"
    /\ job_id \in DOMAIN JOBS /\ JOBS[job_id] = "alive"
    /\ job_id \in DOMAIN jobs_dir /\ Content(jobs_dir, job_id) = ""
    /\ status \in (IF Written(jobs_dir, job_id) = <<>> THEN {"running"}
                   ELSE {"failed", "completed"})
    /\ jobs_dir' = update_status(jobs_dir, job_id, status)
    /\ UNCHANGED <<stage, fn, arg, out, JOBS, ran, max_workers, batchVars>>

\* The job's process ends, wherever it is.
JobExits(job_id, code) ==
    /\ stage = "api"
    /\ job_id \in DOMAIN JOBS /\ JOBS[job_id] = "alive"
    /\ JOBS' = SetKey(JOBS, job_id, code)
    /\ UNCHANGED <<stage, fn, arg, out, jobs_dir, ran, max_workers, batchVars>>

\* GET /api/job-status/{job_id}
GetJobStatus(job_id) ==
    /\ stage = "api"
    /\ fn' = "get_job_status" /\ arg' = job_id
    /\ out' = get_job_status(jobs_dir, JOBS, job_id)
    /\ UNCHANGED <<stage, JOBS, jobs_dir, ran, max_workers, batchVars>>

NextApi ==
    \/ \E job_id \in JobIds : RunLeadGen(job_id)
    \/ \E job_id \in JobIds : JobOpensStatus(job_id)
    \/ \E job_id \in JobIds : \E status \in {"running", "failed", "completed"} :
          JobWritesStatus(job_id, status)
    \/ \E job_id \in JobIds : \E code \in {"exit 0", "exit 1"} : JobExits(job_id, code)
    \/ \E job_id \in RequestIds : GetJobStatus(job_id)

SpecApi == InitApi /\ [][NextApi]_vars

---------------------------------------------------------------------------
(* Claims about the verification stage, checked under SpecVerify *)

Status(i) == GetOr(leads[i], "email_status", "<missing>")
Finished(i) == task[i] \in {"done", "raised"}
HasPrimary(i) == Truthy(Get(input[i], "primary_email"))
DomainOf(i) == get_domain_from_website(Get(input[i], "website"))

\* C1: a lead whose primary_email is present has exactly that address probed,
\* once, and nothing else; the probe's verdict maps True -> verified with
\* verified_email = primary_email, None -> unverified with verified_email =
\* primary_email, False -> invalid with verified_email None.
C1_PrimaryProbeDecides ==
    \A i \in Idx : HasPrimary(i) =>
        /\ Len(probes[i]) <= 1
        /\ \A k \in 1..Len(probes[i]) :
              probes[i][k].kind = "primary" /\ probes[i][k].email = input[i]["primary_email"]
        /\ (Finished(i) => Len(probes[i]) = 1)
        /\ (task[i] = "done" =>
              /\ result[i].valid \in {"True", "None", "False"}
              /\ (result[i].valid = "True" =>
                    Status(i) = "verified"
                    /\ Get(leads[i], "verified_email") = input[i]["primary_email"])
              /\ (result[i].valid = "None" =>
                    Status(i) = "unverified"
                    /\ Get(leads[i], "verified_email") = input[i]["primary_email"])
              /\ (result[i].valid = "False" =>
                    Status(i) = "invalid"
                    /\ "verified_email" \in DOMAIN leads[i]
                    /\ leads[i]["verified_email"] = None))

C1_Witness ==
    \E i \in Idx :
        /\ HasPrimary(i) /\ task[i] = "done" /\ Len(probes[i]) = 1
        /\ result[i].valid = "None" /\ Status(i) = "unverified"

\* RCPT answered 550: the only way verify_email_smtp returns valid False with
\* no error set.
Rcpt550(r) == r.valid = "False" /\ r.error = NoError

\* C2: a lead is classified invalid, or has its verified_email cleared, only
\* when RCPT answered 550 for its primary email; a failed MX lookup, a
\* connection failure or a timeout never does that.
C2_InvalidOnlyOn550 ==
    \A i \in Idx : (HasPrimary(i) /\ task[i] = "done") =>
        ((Status(i) = "invalid" \/ Get(leads[i], "verified_email") = None)
            => Rcpt550(result[i]))

\* C3: with no primary_email and a domain, the first probe is of the fake
\* address at the domain; the lead ends catch_all with info@domain exactly when
\* that probe said valid, and then no guess is probed, whatever the guesser
\* would do; any other verdict goes on to the guesses.
C3_CatchAllIffFakeValid ==
    \A i \in Idx : (~HasPrimary(i) /\ Len(probes[i]) >= 1) =>
        /\ Truthy(DomainOf(i))
        /\ probes[i][1].kind = "catch_all"
        /\ probes[i][1].email = fake_email(DomainOf(i))
        /\ (probes[i][1].ok <=> Status(i) = "catch_all")
        /\ (probes[i][1].ok =>
              /\ Len(probes[i]) = 1 /\ task[i] = "done"
              /\ Get(leads[i], "verified_email") = info_at(DomainOf(i)))
        /\ (~probes[i][1].ok =>
              \/ task[i] = "running" /\ wpc[i] = "guessing"
              \/ task[i] = "done" /\ Status(i) \in {"guessed_verified", "guessed_unverified"}
              \/ task[i] = "raised")

C3_Witness ==
    \E i, j \in Idx :
        /\ ~HasPrimary(i) /\ probes[i] # <<>> /\ probes[i][1].ok
        /\ Status(i) = "catch_all" /\ generate_email_guesses(input[i]).raised
        /\ ~HasPrimary(j) /\ Len(probes[j]) = 1 /\ result[j].valid = "None"
        /\ wpc[j] = "guessing"

\* C4: the guesses are probed in list order, at most the first 5, each probed
\* guess but the last was not valid; a valid one ends the loop with
\* guessed_verified and that guess, an unknown or false one does not end it.
C4_GuessLoop ==
    \A i \in Idx : (~HasPrimary(i) /\ Len(probes[i]) >= 2) =>
        LET g == generate_email_guesses(input[i]).guesses
            n == Len(probes[i]) - 1
            limit == IF Len(g) < 5 THEN Len(g) ELSE 5
        IN  /\ n <= limit
            /\ \A k \in 1..n :
                  /\ probes[i][k + 1].kind = "guess"
                  /\ probes[i][k + 1].email = g[k]
                  /\ (k < n => ~probes[i][k + 1].ok)
            /\ (probes[i][n + 1].ok =>
                  /\ task[i] = "done" /\ Status(i) = "guessed_verified"
                  /\ Get(leads[i], "verified_email") = g[n])
            /\ (Status(i) = "guessed_verified" => probes[i][n + 1].ok)
            /\ ((~probes[i][n + 1].ok /\ n < limit) =>
                  task[i] = "running" /\ wpc[i] = "guessing" /\ idx[i] = n)

C4_Witness ==
    \E i \in Idx :
        /\ Len(probes[i]) = 4 /\ probes[i][4].ok /\ Status(i) = "guessed_verified"
        /\ ~probes[i][2].ok /\ ~probes[i][3].ok

\* C5: in the guess branch, when no probed guess was valid (the guess list may
\* be empty) the lead ends guessed_unverified with info@domain.
C5_FallbackWhenNoGuessValid ==
    \A i \in Idx :
        (/\ ~HasPrimary(i) /\ task[i] = "done" /\ Len(probes[i]) >= 1
         /\ \A k \in 1..Len(probes[i]) : ~probes[i][k].ok) =>
            /\ Status(i) = "guessed_unverified"
            /\ Get(leads[i], "verified_email") = info_at(DomainOf(i))

C5_Witness ==
    \E i, j \in Idx :
        /\ task[i] = "done" /\ Len(probes[i]) = 6 /\ Status(i) = "guessed_unverified"
        /\ task[j] = "done" /\ Len(probes[j]) = 1 /\ Status(j) = "guessed_unverified"
        /\ generate_email_guesses(input[j]).guesses = <<>>

\* C6: with no primary_email and a website that yields no domain, the lead
\* ends no_website with verified_email None, and no probe (hence no MX lookup,
\* which only a probe makes) is ever made for it.
C6_NoWebsite ==
    \A i \in Idx : (~HasPrimary(i) /\ ~Truthy(DomainOf(i))) =>
        /\ probes[i] = <<>>
        /\ task[i] # "raised"
        /\ (task[i] = "done" =>
              /\ Status(i) = "no_website"
              /\ "verified_email" \in DOMAIN leads[i]
              /\ leads[i]["verified_email"] = None)

C6_Witness ==
    \E i, j \in Idx :
        /\ task[i] = "done" /\ Status(i) = "no_website" /\ DomainOf(i) = <<>>
        /\ task[j] = "done" /\ Status(j) = "no_website" /\ DomainOf(j) = None
        /\ Get(input[j], "website") = SiteBadBracket

EmailStatus == {"verified", "unverified", "invalid", "catch_all", "guessed_verified",
                "guessed_unverified", "no_website", "error"}

\* C7: email_status is assigned at most once per lead in a batch, and when
\* verify_all_leads has returned every lead holds one of the eight statuses,
\* assigned exactly once.
C7_StatusAssignedOnce ==
    /\ \A i \in Idx : writes[i] <= 1
    /\ \A i \in Idx : writes[i] = 0 => "email_status" \notin DOMAIN leads[i]
    /\ \A i \in Idx : writes[i] = 1 => Status(i) \in EmailStatus
    /\ (returned => \A i \in Idx : writes[i] = 1)

C7_Witness ==
    /\ returned
    /\ \E i, j \in Idx : Status(i) = "error" /\ Status(j) = "guessed_verified"

\* What lead j's own probes decide, whatever else is in the batch.
OwnOutcome(j) ==
    IF HasPrimary(j)
    THEN (IF result[j].valid = "True" THEN "verified"
          ELSE IF result[j].valid = "None" THEN "unverified" ELSE "invalid")
    ELSE IF probes[j] = <<>> THEN "no_website"
    ELSE IF probes[j][1].ok THEN "catch_all"
    ELSE IF probes[j][Len(probes[j])].ok THEN "guessed_verified"
    ELSE "guessed_unverified"

CrawlKeys == {"name", "website", "emails_found", "primary_email"}

\* C8: when a worker raises, verify_all_leads still returns one result per
\* lead; the lead that raised gets status error and a verification_error and
\* keeps its name, website, emails_found and primary_email; every other lead's
\* status is what its own probes decide.
C8_WorkerFailureIsolated ==
    /\ (returned => Len(results) = NumLeads /\ \A i \in Idx : Collected(i))
    /\ \A k, m \in 1..Len(results) : results[k] = results[m] => k = m
    /\ \A i \in Idx : (task[i] = "raised" /\ Collected(i)) =>
          /\ Status(i) = "error"
          /\ "verification_error" \in DOMAIN leads[i]
          /\ Get(leads[i], "verified_email") = None
    /\ \A i \in Idx : \A key \in CrawlKeys :
          /\ (key \in DOMAIN leads[i]) = (key \in DOMAIN input[i])
          /\ (key \in DOMAIN input[i] => leads[i][key] = input[i][key])
    /\ \A j \in Idx : task[j] = "done" =>
          /\ Status(j) = OwnOutcome(j)
          /\ "verification_error" \notin DOMAIN leads[j]

C8_Witness ==
    /\ returned
    /\ \E i, j \in Idx :
          /\ task[i] = "raised" /\ Status(i) = "error" /\ HasPrimary(i)
          /\ task[j] = "done" /\ Status(j) = "verified"

---------------------------------------------------------------------------
(* Claims about the crawl stage, checked under SpecCrawl *)

WebsiteOf(i) == Get(input[i], "website")

\* C9: crawl_all_websites returns one result per input lead, each lead once,
\* in whatever order the workers complete.  A lead whose worker raised gets
\* emails_found = [], primary_email None and an error field from the
\* scheduler; every lead whose worker returned holds the addresses its own
\* crawl collected and no error field; a lead none of whose pages could be
\* fetched ends with the empty result; name and website are never changed.
C9_CrawlBatchIsolated ==
    stage = "crawl" =>
    /\ (returned => Len(results) = NumLeads /\ \A i \in Idx : Collected(i))
    /\ \A k, m \in 1..Len(results) : results[k] = results[m] => k = m
    /\ \A i \in Idx : Collected(i) => Finished(i)
    /\ \A i \in Idx : (task[i] = "raised" /\ Collected(i)) =>
          /\ {"emails_found", "primary_email", "error"} \subseteq DOMAIN leads[i]
          /\ leads[i]["emails_found"] = <<>>
          /\ leads[i]["primary_email"] = None
    /\ \A j \in Idx : task[j] = "done" =>
          /\ "error" \notin DOMAIN leads[j]
          /\ {"emails_found", "primary_email"} \subseteq DOMAIN leads[j]
          /\ leads[j]["emails_found"] \in ListsOf(emails[j])
          /\ leads[j]["primary_email"] =
                (IF emails[j] = {} THEN None ELSE leads[j]["emails_found"][1])
          /\ (~anyHtml[j] =>
                leads[j]["emails_found"] = <<>> /\ leads[j]["primary_email"] = None)
    /\ \A i \in Idx : \A key \in {"name", "website"} :
          /\ (key \in DOMAIN leads[i]) = (key \in DOMAIN input[i])
          /\ (key \in DOMAIN input[i] => leads[i][key] = input[i][key])

C9_Witness ==
    /\ stage = "crawl" /\ returned
    /\ \E i, j \in Idx :
          /\ task[i] = "raised" /\ "error" \in DOMAIN leads[i]
          /\ leads[i]["emails_found"] = <<>>
          /\ task[j] = "done" /\ Len(leads[j]["emails_found"]) = 2

\* C10: for a website that is empty or null no page is fetched and no delay
\* is taken; crawl_website_for_emails returns the empty set without raising,
\* and process_lead sets emails_found to [] and primary_email to None.
C10_NoWebsiteNoFetch ==
    stage \in {"crawl", "site"} =>
    \A i \in Idx : WebsiteOf(i) \in {<<>>, None} =>
        /\ fetched[i] = <<>> /\ delays[i] = 0 /\ pages[i] = <<>>
        /\ task[i] # "raised"
        /\ (task[i] = "done" =>
              /\ emails[i] = {}
              /\ (stage = "crawl" =>
                    /\ {"emails_found", "primary_email"} \subseteq DOMAIN leads[i]
                    /\ leads[i]["emails_found"] = <<>>
                    /\ leads[i]["primary_email"] = None))

C10_Witness ==
    /\ stage = "site"
    /\ \E i, j \in Idx :
          /\ input[i]["website"] = <<>> /\ input[j]["website"] = None
          /\ task[i] = "done" /\ task[j] = "done"
          /\ emails[i] = {} /\ emails[j] = {}
          /\ fetched[i] = <<>> /\ fetched[j] = <<>>

\* What one page adds to the set: the addresses matched in its text once the
\* fetch returned a body, and those of its mailto links once it parsed.
Harvested(p) ==
    IF p.html = <<>> THEN {}
    ELSE IF p.parses THEN found_in[p] \cup mailto_in[p]
    ELSE found_in[p]

\* What one page adds if only a page handled without an exception counts.
HarvestedIfSucceeded(p) ==
    IF p.html # <<>> /\ p.parses THEN found_in[p] \cup mailto_in[p] ELSE {}

C11_Inv ==
    stage \in {"crawl", "site"} =>
    \A i \in Idx :
        /\ (pages[i] # <<>> => Len(pages[i]) = 11)
        /\ fetched[i] = SubSeq(pages[i], 1, idx[i])
        /\ Len(fetched[i]) <= 11
        /\ (task[i] = "raised" => fetched[i] = <<>>)
        /\ (task[i] = "done" /\ pages[i] # <<>> => fetched[i] = pages[i])
        /\ emails[i] = UNION {Harvested(p) : p \in outcomes[i]}
        /\ (outcomes[i] \subseteq {PageFailed} => emails[i] = {})

CrawlProcessed(i) ==
    stage = "crawl" /\ (task[i] = "done" \/ (task[i] = "raised" /\ Collected(i)))

\* C12: once the crawl stage has processed a lead, primary_email is None
\* exactly when emails_found is empty, otherwise it is the first element of
\* emails_found; emails_found holds no address twice.
C12_PrimaryIsFirstFound ==
    \A i \in Idx : CrawlProcessed(i) =>
        /\ {"emails_found", "primary_email"} \subseteq DOMAIN leads[i]
        /\ (leads[i]["primary_email"] = None) = (leads[i]["emails_found"] = <<>>)
        /\ (leads[i]["emails_found"] # <<>> =>
              leads[i]["primary_email"] = leads[i]["emails_found"][1])
        /\ \A a, b \in 1..Len(leads[i]["emails_found"]) :
              leads[i]["emails_found"][a] = leads[i]["emails_found"][b] => a = b

C12_Witness ==
    \E i \in Idx :
        /\ CrawlProcessed(i) /\ Len(leads[i]["emails_found"]) = 2
        /\ leads[i]["primary_email"] = leads[i]["emails_found"][1]
        /\ leads[i]["primary_email"] # leads[i]["emails_found"][2]

---------------------------------------------------------------------------
(* Claims about the two stages together, checked under SpecStages *)

\* The fields each stage writes.
OwnFields ==
    [s \in Stages |->
        IF s = "crawl" THEN {"emails_found", "primary_email", "error"}
        ELSE {"verified_email", "email_status", "verification_error"}]

\* C13: while a stage runs and after it, every key a lead held when the
\* stage started is still there, every key that is not one of the stage's
\* own three holds the value it held then, and the only keys added are the
\* stage's own.
C13_StagesOnlyAddOwnFields ==
    stage \in Stages =>
    \A i \in Idx :
        /\ DOMAIN input[i] \subseteq DOMAIN leads[i]
        /\ (DOMAIN leads[i] \ DOMAIN input[i]) \subseteq OwnFields[stage]
        /\ \A key \in DOMAIN input[i] \ OwnFields[stage] : leads[i][key] = input[i][key]

C13_Witness ==
    /\ stage = "crawl" /\ ran = <<"verify">> /\ returned
    /\ \E i \in Idx :
          /\ "email_status" \in DOMAIN input[i]
          /\ input[i]["email_status"] = "guessed_verified"
          /\ leads[i]["email_status"] = "guessed_verified"
          /\ leads[i]["verified_email"] = input[i]["verified_email"]
          /\ Len(leads[i]["emails_found"]) = 2

\* What one step may do to lead i and to its task while a batch runs.
C14_Step(i) ==
    /\ (task'[i] # task[i] =>
          \/ task[i] = "queued" /\ task'[i] = "running"
          \/ task[i] = "running" /\ task'[i] \in {"done", "raised"})
    /\ (leads'[i] # leads[i] =>
          \/ task[i] = "running" /\ task'[i] = "done"
          \/ /\ task[i] = "raised" /\ task'[i] = "raised"
             /\ ~Collected(i) /\ results' = Append(results, i))

\* C14: in a batch the task of lead i is the only task for it: it starts
\* once, and lead i is written only by the step in which that running task
\* returns, or by the scheduler's handler after the task has raised, once;
\* never more than max_workers tasks are running.
C14_OneWriterPerLead ==
    /\ [](stage \in Stages => Cardinality(Running) <= max_workers)
    /\ [][(stage \in Stages /\ stage' = stage) => (\A i \in Idx : C14_Step(i))]_vars

C14_Witness ==
    /\ stage = "crawl" /\ max_workers = 2
    /\ \E i, j \in Idx :
          /\ task[i] = "raised" /\ Collected(i) /\ leads[i] # input[i]
          /\ task[j] = "running" /\ wpc[j] = "pages" /\ leads[j] = input[j]

\* Stage s has run on lead i: in an earlier run, or in this one once the
\* lead's task has returned or its exception has been handled.
RanOn(s, i) ==
    \/ \E k \in 1..Len(ran) : ran[k] = s
    \/ stage = s /\ (task[i] = "done" \/ (task[i] = "raised" /\ Collected(i)))

---------------------------------------------------------------------------
(* Claims about the pure functions, checked under SpecCalls *)

Called(f) == stage = "returned" /\ fn = f

\* The first position of x in the list xs, 0 if it is not in it.
IndexOf(xs, x) ==
    IF \E k \in 1..Len(xs) : xs[k] = x
    THEN CHOOSE k \in 1..Len(xs) : xs[k] = x /\ \A j \in 1..(k - 1) : xs[j] # x
    ELSE 0

JoeSmithPlumbingGuesses == <<
    <<"i","n","f","o","@","e","x","a","m","p","l","e",".","o","r","g">>, <<"c","o","n","t","a","c",
        "t","@","e","x","a","m","p","l","e",".","o","r","g">>, <<"h","e","l","l","o","@","e","x",
            "a","m","p","l","e",".","o","r","g">>,
    <<"s","a","l","e","s","@","e","x","a","m","p","l","e",".","o","r","g">>, <<"s","u","p","p","o",
        "r","t","@","e","x","a","m","p","l","e",".","o","r","g">>, <<"a","d","m","i","n","@","e",
            "x","a","m","p","l","e",".","o","r","g">>,
    <<"o","f","f","i","c","e","@","e","x","a","m","p","l","e",".","o","r","g">>, <<"j","o","e","@",
        "e","x","a","m","p","l","e",".","o","r","g">>, <<"j","o","e",".","s","m","i","t","h","@",
            "e","x","a","m","p","l","e",".","o","r","g">>,
    <<"j","o","e","s","m","i","t","h","@","e","x","a","m","p","l","e",".","o","r","g">> >>

\* C15: for the name "Joe Smith Plumbing" and a website of domain
\* example.org, generate_email_guesses returns a list that holds info@,
\* contact@, hello@, sales@, support@, admin@, office@, joe@, joe.smith@ and
\* joesmith@example.org, in this order.
C15_JoeSmithPlumbing ==
    (Called("generate_email_guesses")
       /\ arg = [name |-> JoeSmithPlumbing, website |-> SiteExampleOrg]) =>
        /\ \A k \in 1..Len(JoeSmithPlumbingGuesses) :
              IndexOf(out, JoeSmithPlumbingGuesses[k]) > 0
        /\ \A k \in 1..(Len(JoeSmithPlumbingGuesses) - 1) :
              IndexOf(out, JoeSmithPlumbingGuesses[k])
                 < IndexOf(out, JoeSmithPlumbingGuesses[k + 1])

\* The part of an address before its first '@'.
LocalPart(email) == SubSeq(email, 1, Find(email, "@") - 1)

\* C16: a guess is emitted only when its placeholders have a value: for a
\* name of one token no guess ends its local part with '.', and no guess is
\* in the list twice; for an empty or missing name no guess has an empty
\* local part or the local part '.'.
C16_UnresolvedTemplatesOmitted ==
    (Called("generate_email_guesses") /\ out # Raised) =>
        LET name_parts == SplitWs(GetOr(arg, "name", <<>>))
        IN  /\ (Len(name_parts) = 1 =>
                  /\ \A k \in 1..Len(out) :
                        LocalPart(out[k]) = <<>>
                        \/ LocalPart(out[k])[Len(LocalPart(out[k]))] # "."
                  /\ \A a, b \in 1..Len(out) : out[a] = out[b] => a = b)
            /\ (Len(name_parts) = 0 =>
                  \A k \in 1..Len(out) : LocalPart(out[k]) \notin {<<>>, <<".">>})

\* C17: for a website written as scheme, www prefix, host, port and path,
\* get_domain_from_website returns the host in lowercase, whatever the case
\* of the prefix and with or without a scheme; for an empty, null or
\* unparseable website it returns None.
C17_BareLowercaseHost ==
    Called("get_domain_from_website") =>
        /\ \A p \in WebsiteParts : arg = WebsiteOfParts(p) => out = Lower(p.host)
        /\ (arg \in {<<>>, None, SiteBadBracket} => out = None)

\* The substrings extract_emails_from_html excludes.
Excluded == FalsePositives \cup SystemSenders

\* C18: no address that extract_emails_from_html returns has a lowercase
\* form that contains one of the twelve excluded substrings.
C18_ExcludedNeverReturned ==
    Called("extract_emails_from_html") =>
        \A email \in out : \A x \in Excluded : ~Contains(Lower(email), x)

C18_Witness ==
    /\ Called("extract_emails_from_html")
    /\ arg = <<"B","o","b","@","a",".","i","o"," ","W","o","r","d","P","r","e","s","s","@","E","x",
        "a","m","p","l","e",".","C","O","M">>
    /\ out = { <<"B","o","b","@","a",".","i","o">> }

\* C19: every address extract_emails_from_html returns is in lowercase, and
\* no two of them differ only in the case of their letters.
C19_LowercaseAddresses ==
    Called("extract_emails_from_html") =>
        /\ \A email \in out : email = Lower(email)
        /\ \A a, b \in out : Lower(a) = Lower(b) => a = b
---------------------------------------------------------------------------
(* Claims about the scripts' command lines, checked under SpecMain *)

\* C21: for every configuration the two stages are run with (the defaults
\* or --workers values), the pool of the verification stage is strictly
\* smaller than the pool of the crawl stage.
C21_VerifyPoolSmaller ==
    (DOMAIN out = Stages) => out["verify"] < out["crawl"]
---------------------------------------------------------------------------
(* Further claims about the verification stage, checked under SpecVerify *)

\* The reasons verify_email_smtp reports for an exception of the SMTP session.
SessionErrors == {"Server disconnected", "Connection failed", "Timeout", "str(e)"}

\* C22: when the SMTP session of a probe ends in an exception (disconnect,
\* connect failure, timeout, any other), verify_email_smtp returns without
\* raising, with error set to the reason and valid unknown: neither false nor
\* true.
C22_SessionErrorLeavesUnknown ==
    \A i \in Idx : (Len(probes[i]) > 0 /\ result[i].error \in SessionErrors) =>
        (~result[i].raised /\ result[i].valid = "None")
\* The five role addresses at a domain.
RoleAddresses(d) ==
    {l \o d : l \in {<<"i","n","f","o","@">>, <<"c","o","n","t","a","c","t","@">>,
                     <<"h","e","l","l","o","@">>, <<"s","a","l","e","s","@">>,
                     <<"s","u","p","p","o","r","t","@">>}}

\* C26: every guess that is probed is one of info@, contact@, hello@, sales@,
\* support@ at the lead's domain (no name-derived guess, admin@ or office@
\* is), and a lead that ends guessed_verified has one of the five as its
\* verified_email.
C26_GuessedVerifiedIsRole ==
    \A i \in Idx :
        /\ \A k \in 1..Len(probes[i]) :
              probes[i][k].kind = "guess" => probes[i][k].email \in RoleAddresses(DomainOf(i))
        /\ (Status(i) = "guessed_verified" =>
              Get(leads[i], "verified_email") \in RoleAddresses(DomainOf(i)))

C26_Witness ==
    \E i \in Idx :
        /\ task[i] = "done" /\ Status(i) = "guessed_verified" /\ Len(probes[i]) = 6
        /\ Get(leads[i], "verified_email") = <<"s","u","p","p","o","r","t","@">> \o DomainOf(i)

\* The probes of a lead that is verified: one of its primary_email, none
\* without a domain, otherwise the catch-all probe and at most five guesses.
C27_Probes(i) ==
    IF HasPrimary(i) THEN Len(probes[i]) = 1 /\ probes[i][1].kind = "primary"
    ELSE IF ~Truthy(DomainOf(i)) THEN probes[i] = <<>>
    ELSE /\ Len(probes[i]) \in 1..6
         /\ probes[i][1].kind = "catch_all"
         /\ \A k \in 2..Len(probes[i]) : probes[i][k].kind = "guess"

\* C27: when every probe returns, the verification of each lead ends in one
\* of the terminal statuses after 1 probe (primary_email present), 0 probes
\* (no domain) or at most 6 probes (the catch-all probe, then at most 5
\* guesses), never more meanwhile, and verify_all_leads returns once every
\* lead has its status.
C27_VerifyTerminates ==
    /\ [](\A i \in Idx : Len(probes[i]) <= (IF HasPrimary(i) THEN 1 ELSE 6))
    /\ [](\A i \in Idx : Finished(i) => C27_Probes(i))
    /\ <>(returned /\ \A i \in Idx : Finished(i) /\ Status(i) \in EmailStatus)
    /\ ((\A i \in Idx : Collected(i)) ~> returned)

C27_Witness ==
    /\ returned
    /\ \E i, j \in Idx :
          /\ Len(probes[i]) = 6 /\ Status(i) = "guessed_unverified"
          /\ Len(probes[j]) = 1 /\ Status(j) = "error"

---------------------------------------------------------------------------
(* Further claims about the crawl stage, checked under SpecCrawl *)

\* The fetch of the next page of worker i's site, in this step.
C23_Fetches(i) == Len(fetched'[i]) = Len(fetched[i]) + 1

\* C23: within one site crawl the pages are fetched one at a time in list
\* order (the homepage, then the contact paths), and when a page is fetched
\* after another, a delay has elapsed after every earlier fetch, also after a
\* page whose processing raised.
C23_SequentialWithDelay ==
    [][\A i \in Idx : C23_Fetches(i) =>
          /\ fetched'[i] = SubSeq(pages[i], 1, Len(fetched'[i]))
          /\ delays[i] = Len(fetched[i])]_vars
---------------------------------------------------------------------------
(* Claims about the links of a page, checked under SpecPage *)

\* The whole of s is one address of the grammar of EMAIL_PATTERN.
IsOneAddress(s) ==
    \E at \in 2..Len(s) : \E dot \in (at + 2)..(Len(s) - 2) :
        /\ s[at] = "@" /\ s[dot] = "."
        /\ \A k \in 1..(at - 1) : s[k] \in LocalChars
        /\ \A k \in (at + 1)..(dot - 1) : s[k] \in DomainChars
        /\ \A k \in (dot + 1)..Len(s) : s[k] \in TldChars
        /\ Boundary(s, 1) /\ Boundary(s, Len(s) + 1)

\* The mailto: links of the page.
MailtoLinks == {k \in 1..Len(arg.hrefs) : StartsWith(arg.hrefs[k], MailtoPrefix)}

\* C24: a mailto: link adds its target, the scheme and the ?query removed,
\* only when the whole of what remains is one address of the grammar; what
\* merely starts with an address is not added.
C24_MailtoWholeAddress ==
    stage = "returned" =>
        \A k \in MailtoLinks :
            mailto_address(arg.hrefs[k]) \in out => IsOneAddress(mailto_address(arg.hrefs[k]))
\* C25: every address a crawl adds to its set passes the false-positive filter
\* of extract_emails_from_html, whether it was matched in the page's text or
\* taken from a mailto: link: none contains a placeholder domain, an image
\* extension or a system sender.
C25_MailtoFiltered ==
    stage = "returned" =>
        \A email \in out : \A x \in Excluded : ~Contains(Lower(email), x)
---------------------------------------------------------------------------
(* Claims about the orchestrator, checked under SpecRun *)

\* The statuses written to the status file of the run's job, in order.
StatusHistory == GetOr(jobs_dir, arg.job_id, <<>>)

Ended == fn \in {"exit 0", "exit 1", "raised"}

AllSucceeded == \A k \in 1..Len(ran) : ran[k].success

\* C28: a run with a job id writes running first and then exactly one
\* terminal status, after which the file does not change: failed when a step
\* that was run failed, which is then the last step run, completed when every
\* step that was run succeeded.
C28_RunningThenTerminal ==
    (Truthy(arg.job_id) /\ fn # "start") =>
        /\ StatusHistory \in {<<"running">>, <<"running", "failed">>, <<"running", "completed">>}
        /\ (Ended => Len(StatusHistory) = 2)
        /\ (Len(StatusHistory) = 2 => Ended)
        /\ (StatusHistory = <<"running", "failed">> <=> ~AllSucceeded)
        /\ \A k \in 1..(Len(ran) - 1) : ran[k].success
        /\ (StatusHistory = <<"running", "completed">> <=> fn = "exit 0")

---------------------------------------------------------------------------
(* Claims about the job-status endpoint, checked under SpecApi *)

Answered == fn = "get_job_status"

\* C30: when the job has no status file the endpoint answers
\* {"status": "running"}, whether or not the id was issued and whether or not
\* the job's process is alive; an answer other than running is what the
\* status file holds, or failed with a read error when the file cannot be
\* read.
C30_RunningWithoutFile ==
    [][\A job_id \in RequestIds : GetJobStatus(job_id) =>
        /\ (job_id \notin DOMAIN jobs_dir => out' = [status |-> "running"])
        /\ (out'.status # "running" =>
              /\ job_id \in DOMAIN jobs_dir
              /\ \/ out' = [job_id |-> job_id, status |-> Content(jobs_dir, job_id)]
                 \/ /\ Content(jobs_dir, job_id) = ""
                    /\ out' = [status |-> "failed", error |-> "Failed to read status"])]_vars

C30_Witness ==
    /\ Answered /\ arg \in DOMAIN JOBS /\ JOBS[arg] = "exit 1"
    /\ arg \notin DOMAIN jobs_dir /\ out = [status |-> "running"]

====
